---- MODULE Spec2Model ----
(***************************************************************************)
(* Verification model of pr-prism: duplicate clustering (src/cluster.ts,   *)
(* src/similarity.ts) and quality scoring (src/scorer.ts).                 *)
(*                                                                         *)
(* Numbers.  The program computes in IEEE doubles; the model computes the  *)
(* same expressions exactly, in fixed point:                               *)
(*   - an embedding is a pair of integers whose squared norm is a perfect  *)
(*     square, so Math.sqrt is exact and every cosine similarity is a      *)
(*     whole number of hundredths;                                         *)
(*   - a threshold is a whole number of hundredths;                        *)
(*   - updatedAt is the item's age in 30-day periods (one half-life), so   *)
(*     the recency factor 0.5 ** (ageDays / 30) is 1 / 2^age;              *)
(*   - a body is its length;                                               *)
(*   - a scoring weight is a whole number of hundredths, a scoring signal  *)
(*     a whole number of 1/SignalUnit, a score a fraction num / den of     *)
(*     that unit.                                                          *)
(* A key `${repo}:${type}:${number}` is the tuple <<repo, type, number>>.  *)
(***************************************************************************)
EXTENDS Integers, Sequences, FiniteSets, TLC

\* ---------------------------------------------------------------- bounds
MaxIds == 5          \* most stored embeddings of the repo in one run
MaxPickIds == 3      \* most stored embeddings when item attributes vary freely
MaxRankItems == 3    \* most items handed to one rankPRs call
MaxChunks == 2       \* most vision chunks of one vision document
MaxVisionItems == 2  \* most stored items of the repo in one vision check
MaxCalls == 5        \* most calls made on the database file in one history
MaxScans == 2        \* most scans in one history
MaxFetched == 2      \* most items the host returns to one scan
MaxNewItems == 3     \* most new or updated items of one embedding phase
MaxContextItems == 4  \* most stored items handed to one runRank

\* ------------------------------------------------------------- constants
BodyCap == 500       \* cluster.ts: descriptionQuality = min(1, length / 500)
\* cluster.ts: useANN = ids.length >= 5000.  Scaled down to the model's size:
\* runs with fewer non-zero embeddings are brute force, the others ANN.
ANN_MIN_IDS == 4

Repo == "r"
OtherRepo == "x"
Vectors == {<<0, 0>>, <<1, 0>>, <<4, 3>>, <<3, 4>>}
Thresholds == {0, 80}
DefaultThreshold == 85
BodyLens == {0, 250, 600}
Ages == {0, 1}
RecencyScale == 2 ^ 1    \* recency factors are in 1/RecencyScale
NoItem == [absent |-> TRUE]
Absent == 0 - 1          \* an additions or deletions field that is undefined
SignalUnit == 3 * 1000   \* scoring signals are in 1/SignalUnit
\* config.ts ScoringWeightsSchema defaults
DefaultWeights ==
    [has_tests |-> 25, ci_passing |-> 20, diff_size_penalty |-> 15,
     author_history |-> 15, description_quality |-> 15, review_approvals |-> 10]

VARIABLES
    allEmbeddings,  \* store.getAllEmbeddings(opts.repo): Seq of [id, emb], Map order
    items,          \* the items argument: Seq of PRItem
    threshold,      \* opts.threshold, in hundredths
    adjacency,      \* the adjacency Map built by the run: id -> Seq of neighbours
    annUsed,        \* whether the run took the ANN branch
    clusters,       \* the returned Cluster[]
    pc,             \* "input" before the call, "done" after it
    prItems,        \* the PRItems handed to scorePR, in call order
    weights,        \* config.scoring.weights, in hundredths
    authorMergeCounts,  \* context.authorMergeCounts: author -> merged PRs
    scored,         \* what the scorePR calls made so far returned
    ranked,         \* what rankPRs returned
    dbTables,       \* the database file: names of the tables that exist
    dbItems,        \* rows of the items table, in rowid order
    dbVec,          \* rows of the vec_items table: id -> embedding
    dbVecWidth,     \* the width vec_items was declared with (float[width])
    dbMeta,         \* rows of the prism_meta table: key -> value
    storeState,     \* "none": no VectorStore object; "open"; "closed"
    dimensions,     \* VectorStore.dimensions
    embeddingModel, \* VectorStore.embeddingModel
    lastCall,       \* the latest store call and the error it threw, if any
    calls,          \* how many store calls, or scans, were made
    scanLog,        \* what the latest runScan fetched and did
    prEmbedding,    \* the prEmbedding argument of scoreVisionAlignment
    visionChunks,   \* the vision chunks: Seq of [heading, embedding]
    visionThresholds,  \* config.thresholds: aligned and drifting, in hundredths
    visionScore,    \* what scoreVisionAlignment returned
    visionResults,  \* what checkVisionAlignment returned
    rateLimitRemaining,  \* GitHubClient.rateLimit.remaining
    attempt,        \* the loop variable of withBackoff or embedWithRetry
    fnCalls,        \* calls of the wrapped function made by the running wrapper
    lastThrow,      \* the latest error a retry wrapper threw to its caller
    scanItems,      \* runScan's newItems: the items to embed and store
    batchStart,     \* runScan's i: where the current batch starts (from 1)
    single,         \* the item being embedded individually, 0 if none
    batchEmbeddings,  \* runScan's embeddings array of the current batch
    batchCalls,     \* embedBatch calls made for the current batch
    failedBatches,  \* starts of the batches whose embedWithRetry(texts) threw
    failedSingles,  \* the items whose embedWithRetry([text]) threw
    upsertLog,      \* the items handed to store.upsert, in call order
    authorLookups,  \* the authors getAuthorMergeCount was called for, in order
    opts,           \* the applyLabels and dryRun options of the command
    hostCalls,      \* the calls made on the repository host, in order
    hostLabels,     \* the labels that exist on the repository host
    trace           \* the stage boundaries and store accesses of a triage run

clusterVars == <<allEmbeddings, items, threshold, adjacency, annUsed, clusters>>
scorerVars == <<prItems, weights, authorMergeCounts, scored>>
rankVars == <<ranked>>
dbVars == <<dbTables, dbItems, dbVec, dbVecWidth, dbMeta>>
storeVars == <<dbVars, storeState, dimensions, embeddingModel, lastCall, calls, scanLog>>
visionVars == <<prEmbedding, visionChunks, visionThresholds, visionScore, visionResults>>
retryVars == <<rateLimitRemaining, attempt, fnCalls, lastThrow>>
embedVars == <<scanItems, batchStart, single, batchEmbeddings, batchCalls,
               failedBatches, failedSingles, upsertLog>>
commandVars == <<authorLookups, opts, hostCalls, hostLabels, trace>>
pipelineVars == <<retryVars, embedVars, commandVars>>
vars == <<clusterVars, pc, scorerVars, rankVars, storeVars, visionVars, pipelineVars>>

\* ------------------------------------------------------------ similarity
Range(s) == {s[i] : i \in DOMAIN s}

ISqrt(n) == CHOOSE r \in 0..n : r * r = n

\* similarity.ts cosineSimilarity, in hundredths
cosineSimilarity(a, b) ==
    LET dot == a[1] * b[1] + a[2] * b[2]
        normA == a[1] * a[1] + a[2] * a[2]
        normB == b[1] * b[1] + b[2] * b[2]
        denom == ISqrt(normA) * ISqrt(normB)
    IN IF denom = 0 THEN 0 ELSE (dot * 100) \div denom

\* similarity.ts isZeroVector
isZeroVector(v) == \A i \in DOMAIN v : v[i] = 0

\* ------------------------------------------------------------ clustering
\* cluster.ts recencyFactor: 0.5 ** age, in 1/RecencyScale
recencyFactor(age) == RecencyScale \div (2 ^ age)

\* cluster.ts:114  Math.min(1, (item.body?.length || 0) / 500), in 1/BodyCap
clusterDescriptionQuality(item) ==
    IF item.bodyLen < BodyCap THEN item.bodyLen ELSE BodyCap

\* cluster.ts:104-118  the ScoredPR built for one member;
\* score = recency * descriptionQuality, in 1/(RecencyScale * BodyCap)
clusterScored(item) ==
    [repo |-> item.repo, type |-> item.type, number |-> item.number,
     bodyLen |-> item.bodyLen, age |-> item.age,
     score |-> recencyFactor(item.age) * clusterDescriptionQuality(item)]

\* (variant) the zero vectors are not filtered out
keepAllEmbeddings(all) == all

\* cluster.ts:21-30  the embeddings Map: allEmbeddings without the zero vectors
nonZeroEmbeddings(all) == SelectSeq(all, LAMBDA e : ~isZeroVector(e.emb))

embHas(embs, id) == \E i \in DOMAIN embs : embs[i].id = id
embGet(embs, id) == embs[CHOOSE i \in DOMAIN embs : embs[i].id = id].emb

\* cluster.ts:35-38  itemMap.get(key); a later item with the same key replaces
\* an earlier one
itemKey(repo, item) == <<repo, item.type, item.number>>
itemMapGet(its, repo, key) ==
    LET hits == {i \in DOMAIN its : itemKey(repo, its[i]) = key}
    IN IF hits = {} THEN NoItem
       ELSE its[CHOOSE i \in hits : \A j \in hits : j <= i]

EmptyMap == [x \in {} |-> <<>>]

\* adjacency.get(a).add(b) on a Set kept in insertion order
addNeighbor(adj, a, b) ==
    [adj EXCEPT ![a] = IF b \in Range(@) THEN @ ELSE Append(@, b)]

\* (variant) the edge is recorded in one direction only
addEdgeOneWay(adj, a, b) ==
    LET a1 == IF a \in DOMAIN adj THEN adj ELSE adj @@ (a :> <<>>)
        a2 == IF b \in DOMAIN a1 THEN a1 ELSE a1 @@ (b :> <<>>)
    IN addNeighbor(a2, a, b)

\* cluster.ts:60-63 and 75-78
addEdge(adj, a, b) ==
    LET a1 == IF a \in DOMAIN adj THEN adj ELSE adj @@ (a :> <<>>)
        a2 == IF b \in DOMAIN a1 THEN a1 ELSE a1 @@ (b :> <<>>)
    IN addNeighbor(addNeighbor(a2, a, b), b, a)

\* cluster.ts:68-81  brute force over all pairs i < j
RECURSIVE bruteForce(_, _, _, _, _)
bruteForce(embs, thr, i, j, adj) ==
    IF i > Len(embs) THEN adj
    ELSE IF j > Len(embs) THEN bruteForce(embs, thr, i + 1, i + 2, adj)
    ELSE bruteForce(embs, thr, i, j + 1,
            IF cosineSimilarity(embs[i].emb, embs[j].emb) >= thr
            THEN addEdge(adj, embs[i].id, embs[j].id)
            ELSE adj)

\* What store.search returned to the ANN branch.  sqlite-vec's answer is not
\* determined by this repository, so it is an input of the run: a search mode
\* fixes, for every query, the candidate ids in the order the rows came back:
\* every stored id, none, the id after the query's, or one fixed id (the first
\* stored, the last stored or a foreign one) whatever the query.
\* The candidates may be the query item itself, ids with a zero vector and ids
\* of another repository (search reads the whole vec_items table).
ForeignId == <<OtherRepo, "pr", 1>>
storedIds(all) == [i \in DOMAIN all |-> all[i].id]
SearchModes(all) ==
    {[kind |-> "all"], [kind |-> "none"], [kind |-> "next"]}
    \cup {[kind |-> "one", id |-> c] :
            c \in {all[i].id : i \in {1, Len(all)} \cap DOMAIN all} \cup {ForeignId}}

\* store.ts search(emb, K, threshold) as seen by query number q of embs
search(mode, all, embs, q) ==
    CASE mode.kind = "all" -> Append(storedIds(all), ForeignId)
      [] mode.kind = "none" -> <<>>
      [] mode.kind = "next" -> <<embs[(q % Len(embs)) + 1].id>>
      [] mode.kind = "one" -> <<mode.id>>

\* (variant) the candidate is trusted without the exact similarity
admitsUnverified(embs, thr, q, candidateId) ==
    /\ candidateId # embs[q].id
    /\ embHas(embs, candidateId)

\* cluster.ts:55-59  a returned candidate is admitted as a neighbour of query
\* q only if it is another id of the embeddings Map and its exact cosine
\* similarity reaches the threshold
admits(embs, thr, q, candidateId) ==
    /\ candidateId # embs[q].id
    /\ embHas(embs, candidateId)
    /\ cosineSimilarity(embs[q].emb, embGet(embs, candidateId)) >= thr

\* cluster.ts:54-65  the candidates of one query
RECURSIVE annCandidates(_, _, _, _, _, _)
annCandidates(embs, thr, q, cands, k, adj) ==
    IF k > Len(cands) THEN adj
    ELSE annCandidates(embs, thr, q, cands, k + 1,
            IF admits(embs, thr, q, cands[k])
            THEN addEdge(adj, embs[q].id, cands[k])
            ELSE adj)

\* cluster.ts:51-66  ANN candidate generation over all ids
RECURSIVE annEdges(_, _, _, _, _, _)
annEdges(all, embs, thr, mode, q, adj) ==
    IF q > Len(embs) THEN adj
    ELSE annEdges(all, embs, thr, mode, q + 1,
            annCandidates(embs, thr, q, search(mode, all, embs, q), 1, adj))

\* cluster.ts:45
useANN(embs) == Len(embs) >= ANN_MIN_IDS

\* cluster.ts:47-82
buildAdjacency(all, embs, thr, mode) ==
    IF useANN(embs) THEN annEdges(all, embs, thr, mode, 1, EmptyMap)
    ELSE bruteForce(embs, thr, 1, 2, EmptyMap)

\* (variant) the visited set does not outlive one traversal
RECURSIVE bfsForget(_, _, _, _)
bfsForget(queue, visited, component, adj) ==
    IF queue = <<>> THEN [visited |-> {}, component |-> component]
    ELSE LET current == Head(queue)
         IN IF current \in visited THEN bfsForget(Tail(queue), visited, component, adj)
            ELSE LET seen == visited \cup {current}
                     nbrs == IF current \in DOMAIN adj THEN adj[current] ELSE <<>>
                 IN bfsForget(Tail(queue) \o SelectSeq(nbrs, LAMBDA x : x \notin seen),
                              seen, Append(component, current), adj)

\* cluster.ts:90-100  breadth-first traversal from the queue's first id
RECURSIVE bfs(_, _, _, _)
bfs(queue, visited, component, adj) ==
    IF queue = <<>> THEN [visited |-> visited, component |-> component]
    ELSE LET current == Head(queue)
         IN IF current \in visited THEN bfs(Tail(queue), visited, component, adj)
            ELSE LET seen == visited \cup {current}
                     nbrs == IF current \in DOMAIN adj THEN adj[current] ELSE <<>>
                 IN bfs(Tail(queue) \o SelectSeq(nbrs, LAMBDA x : x \notin seen),
                        seen, Append(component, current), adj)

\* (variant) comparator a.score - b.score
itemScoreAscending(x) == 0 - x.score

\* cluster.ts:121  the sort key of (a, b) => b.score - a.score
itemScore(x) == x.score

\* (variant) a sort that is not stable: equal elements come out reversed
sortByScoreTiesReversed(seq) ==
    LET rank(i) == Cardinality({j \in DOMAIN seq : itemScore(seq[j]) > itemScore(seq[i])})
                   + Cardinality({j \in i..Len(seq) : itemScore(seq[j]) = itemScore(seq[i])})
    IN [r \in DOMAIN seq |-> seq[CHOOSE i \in DOMAIN seq : rank(i) = r]]

\* cluster.ts:121  Array.prototype.sort with (a, b) => b.score - a.score:
\* descending, and stable
sortByScore(seq) ==
    LET rank(i) == Cardinality({j \in DOMAIN seq : itemScore(seq[j]) > itemScore(seq[i])})
                   + Cardinality({j \in 1..i : itemScore(seq[j]) = itemScore(seq[i])})
    IN [r \in DOMAIN seq |-> seq[CHOOSE i \in DOMAIN seq : rank(i) = r]]

\* cluster.ts:104-121  the members found in itemMap, scored, best first
clusterItemsOf(component, its, repo) ==
    LET found == SelectSeq(component, LAMBDA cid : itemMapGet(its, repo, cid) # NoItem)
        mapped == [i \in DOMAIN found |-> clusterScored(itemMapGet(its, repo, found[i]))]
    IN sortByScore(mapped)

\* cluster.ts:125-134  totalSim over all pairs i < j of the component
RECURSIVE totalSimOf(_, _, _, _)
totalSimOf(component, embs, i, j) ==
    IF i > Len(component) THEN 0
    ELSE IF j > Len(component) THEN totalSimOf(component, embs, i + 1, i + 2)
    ELSE cosineSimilarity(embGet(embs, component[i]), embGet(embs, component[j]))
         + totalSimOf(component, embs, i, j + 1)

\* (variant) one pair per member after the first
pairsOfChain(component) == Len(component) - 1

\* cluster.ts:126-133  pairs: one per i < j
pairsOf(component) == (Len(component) * (Len(component) - 1)) \div 2

\* cluster.ts:136-142  avgSimilarity is the fraction num / den; theme (the
\* best pick's title) is not modelled.  component is the local of that name,
\* kept beside the cluster it produced.
makeCluster(component, clusterItems, embs) ==
    [id |-> 0,
     items |-> clusterItems,
     bestPick |-> clusterItems[1],
     avgSimilarity |-> IF pairsOf(component) > 0
                       THEN [num |-> totalSimOf(component, embs, 1, 2),
                             den |-> pairsOf(component)]
                       ELSE [num |-> 0, den |-> 1],
     component |-> component]

\* cluster.ts:84-143  one cluster per connected component
RECURSIVE components(_, _, _, _, _, _, _)
components(embs, its, repo, adj, i, visited, acc) ==
    IF i > Len(embs) THEN acc
    ELSE LET id == embs[i].id
         IN IF id \in visited \/ id \notin DOMAIN adj
            THEN components(embs, its, repo, adj, i + 1, visited, acc)
            ELSE LET r == bfs(<<id>>, visited, <<>>, adj)
                     clusterItems == clusterItemsOf(r.component, its, repo)
                 IN IF Len(r.component) < 2 \/ Len(clusterItems) < 2
                    THEN components(embs, its, repo, adj, i + 1, r.visited, acc)
                    ELSE components(embs, its, repo, adj, i + 1, r.visited,
                            Append(acc, makeCluster(r.component, clusterItems, embs)))

\* (variant) comparator a.items.length - b.items.length
clusterSizeAscending(c) == 0 - Len(c.items)

\* cluster.ts:146  the sort key of (a, b) => b.items.length - a.items.length
clusterSize(c) == Len(c.items)

\* cluster.ts:146  Array.prototype.sort with
\* (a, b) => b.items.length - a.items.length: descending, and stable
sortBySize(seq) ==
    LET rank(i) == Cardinality({j \in DOMAIN seq : clusterSize(seq[j]) > clusterSize(seq[i])})
                   + Cardinality({j \in 1..i : clusterSize(seq[j]) = clusterSize(seq[i])})
    IN [r \in DOMAIN seq |-> seq[CHOOSE i \in DOMAIN seq : rank(i) = r]]

\* cluster.ts:145-151  sort by size descending, then assign sequential ids
sortAndNumber(cs) ==
    LET sorted == sortBySize(cs)
    IN [i \in DOMAIN sorted |-> [sorted[i] EXCEPT !.id = i]]

\* cluster.ts:18-152
findDuplicateClusters(all, its, repo, thr, mode) ==
    LET embs == nonZeroEmbeddings(all)
        adj == buildAdjacency(all, embs, thr, mode)
    IN [adjacency |-> adj,
        useANN |-> useANN(embs),
        clusters |-> sortAndNumber(components(embs, its, repo, adj, 1, {}, <<>>))]

\* ------------------------------------------ parts a run does not touch
NoCall == [op |-> "none", thrown |-> ""]
NoScan == [fetched |-> <<>>, skipped |-> 0, embedCalls |-> 0, upserts |-> 0]
NoScore == [prNumber |-> 0, score |-> 0, classification |-> "none", matchedSection |-> ""]

NoThrow == [by |-> "none", cause |-> "none", error |-> "none", calls |-> 0]
NoOpts == [applyLabels |-> FALSE, dryRun |-> FALSE]

\* no retry wrapper running
NoRetry ==
    /\ rateLimitRemaining = 5000
    /\ attempt = 0
    /\ fnCalls = 0
    /\ lastThrow = NoThrow

\* no embedding phase
NoEmbed ==
    /\ scanItems = <<>>
    /\ batchStart = 1
    /\ single = 0
    /\ batchEmbeddings = <<>>
    /\ batchCalls = 0
    /\ failedBatches = {}
    /\ failedSingles = {}
    /\ upsertLog = <<>>

\* no command
NoCommand ==
    /\ authorLookups = <<>>
    /\ opts = NoOpts
    /\ hostCalls = <<>>
    /\ hostLabels = {}
    /\ trace = <<>>

NoPipeline == NoRetry /\ NoEmbed /\ NoCommand

\* no database file and no VectorStore object
NoStore ==
    /\ dbTables = {}
    /\ dbItems = <<>>
    /\ dbVec = EmptyMap
    /\ dbVecWidth = 0
    /\ dbMeta = EmptyMap
    /\ storeState = "none"
    /\ dimensions = 0
    /\ embeddingModel = ""
    /\ lastCall = NoCall
    /\ calls = 0
    /\ scanLog = NoScan

\* no vision document
NoVision ==
    /\ prEmbedding = <<0, 0>>
    /\ visionChunks = <<>>
    /\ visionThresholds = [aligned |-> 65, drifting |-> 40]
    /\ visionScore = NoScore
    /\ visionResults = <<>>

\* --------------------------------------------------- inputs of one run
IdAt(i) == <<Repo, "pr", i>>

\* an item as the pipeline hands it over: body of 250 characters, updated now
plainItem(i) == [repo |-> Repo, type |-> "pr", number |-> i, bodyLen |-> 250, age |-> 0]
\* the issue that carries the same number as pull request i
issueTwin(i) == [repo |-> Repo, type |-> "issue", number |-> i, bodyLen |-> 600, age |-> 0]

\* Any stored embeddings; the items argument holds every stored pull request,
\* except that at most one of them (m, the first or the last) is absent and
\* an issue of the same number stands in its place.
InitStructure ==
    \E n \in 0..MaxIds : \E v \in [1..n -> Vectors] : \E m \in {0, 1, n} :
        /\ allEmbeddings = [i \in 1..n |-> [id |-> IdAt(i), emb |-> v[i]]]
        /\ items = [i \in 1..n |-> IF i = m THEN issueTwin(i) ELSE plainItem(i)]
        /\ threshold \in Thresholds

\* Few embeddings, of two directions; every stored item is in the items argument, with
\* any body length and any age.
InitPick ==
    \E n \in 2..MaxPickIds : \E v \in [1..n -> {<<1, 0>>, <<4, 3>>}] :
      \E b \in [1..n -> BodyLens] : \E a \in [1..n -> Ages] :
        /\ allEmbeddings = [i \in 1..n |-> [id |-> IdAt(i), emb |-> v[i]]]
        /\ items = [i \in 1..n |-> [repo |-> Repo, type |-> "pr", number |-> i,
                                    bodyLen |-> b[i], age |-> a[i]]]
        /\ threshold = DefaultThreshold

InitCluster ==
    /\ InitStructure \/ InitPick
    /\ adjacency = EmptyMap
    /\ annUsed = FALSE
    /\ clusters = <<>>
    /\ pc = "input"
    /\ prItems = <<>>
    /\ weights = DefaultWeights
    /\ authorMergeCounts = EmptyMap
    /\ scored = <<>>
    /\ ranked = <<>>
    /\ NoStore /\ NoVision /\ NoPipeline

\* one call of findDuplicateClusters(store, items, {threshold, repo})
FindDuplicateClusters ==
    /\ pc = "input"
    /\ \E mode \in IF useANN(nonZeroEmbeddings(allEmbeddings))
                    THEN SearchModes(allEmbeddings)
                    ELSE {[kind |-> "none"]} :
         LET r == findDuplicateClusters(allEmbeddings, items, Repo, threshold, mode)
         IN /\ adjacency' = r.adjacency
            /\ annUsed' = r.useANN
            /\ clusters' = r.clusters
    /\ pc' = "done"
    /\ UNCHANGED <<allEmbeddings, items, threshold>>
    /\ UNCHANGED <<scorerVars, rankVars, storeVars, visionVars, pipelineVars>>

NextCluster == FindDuplicateClusters

SpecCluster == InitCluster /\ [][NextCluster]_vars

\* --------------------------------------------------------------- scoring
\* scorer.ts normalizeDescriptionQuality, in 1/SignalUnit
normalizeDescriptionQuality(len) ==
    IF len = 0 THEN 0
    ELSE IF len < 50 THEN SignalUnit \div 10
    ELSE IF len < 200 THEN (3 * SignalUnit) \div 10 + ((len - 50) * 3 * SignalUnit) \div (150 * 10)
    ELSE IF len < 1000 THEN (6 * SignalUnit) \div 10 + ((len - 200) * 3 * SignalUnit) \div (800 * 10)
    ELSE LET extra == ((len - 1000) * SignalUnit) \div (5000 * 10)
         IN (9 * SignalUnit) \div 10
            + (IF extra < SignalUnit \div 10 THEN extra ELSE SignalUnit \div 10)

\* scorer.ts normalizeDiffSize, in 1/SignalUnit
normalizeDiffSize(additions, deletions) ==
    LET total == additions + deletions
    IN IF total <= 50 THEN SignalUnit
       ELSE IF total <= 200 THEN (8 * SignalUnit) \div 10
       ELSE IF total <= 500 THEN (6 * SignalUnit) \div 10
       ELSE IF total <= 1000 THEN (4 * SignalUnit) \div 10
       ELSE IF total <= 5000 THEN (2 * SignalUnit) \div 10
       ELSE SignalUnit \div 10

\* scorer.ts normalizeAuthorHistory, in 1/SignalUnit
normalizeAuthorHistory(mergeCount) ==
    IF mergeCount = 0 THEN SignalUnit \div 10
    ELSE IF mergeCount <= 5 THEN (2 * SignalUnit) \div 10 + (mergeCount * 4 * SignalUnit) \div 100
    ELSE IF mergeCount <= 20 THEN (4 * SignalUnit) \div 10 + ((mergeCount - 5) * 2 * SignalUnit) \div 100
    ELSE LET v == (7 * SignalUnit) \div 10 + ((mergeCount - 20) * 5 * SignalUnit) \div 1000
         IN IF v < SignalUnit THEN v ELSE SignalUnit

\* scorer.ts:76
hasDiffStats(item) == item.additions # Absent /\ item.deletions # Absent

\* scorer.ts:74  context.authorMergeCounts.get(item.author) || 0
authorMerges(item, counts) ==
    IF item.author \in DOMAIN counts THEN counts[item.author] ELSE 0

\* scorer.ts:78-86  the ScoreSignals; diffSize is -1 without diff stats
scoreSignals(item, counts) ==
    [hasTests |-> SignalUnit \div 2,
     ciPassing |-> IF item.ciStatus = "success" THEN SignalUnit
                   ELSE IF item.ciStatus = "failure" THEN 0
                   ELSE SignalUnit \div 2,
     diffSize |-> IF hasDiffStats(item)
                  THEN normalizeDiffSize(item.additions, item.deletions)
                  ELSE 0 - SignalUnit,
     authorHistory |-> normalizeAuthorHistory(authorMerges(item, counts)),
     descriptionQuality |-> normalizeDescriptionQuality(item.bodyLen),
     reviewApprovals |-> IF item.reviewCount < 3
                         THEN (item.reviewCount * SignalUnit) \div 3
                         ELSE SignalUnit,
     recency |-> SignalUnit \div (2 ^ item.age)]

\* (variant) the diff-size term is dropped and the other weights are left as
\* configured
effectiveWeightsDropped(w, withDiff) ==
    IF withDiff THEN w @@ [den |-> 100]
    ELSE [w EXCEPT !.diff_size_penalty = 0] @@ [den |-> 100]

\* scorer.ts:89-101  the weights applied, each the fraction field / den.
\* Without diff stats every other weight is divided by otherTotal =
\* 1 - weights.diff_size_penalty, that is (w / 100) / ((100 - d) / 100).
effectiveWeights(w, withDiff) ==
    IF withDiff THEN w @@ [den |-> 100]
    ELSE [has_tests |-> w.has_tests,
          ci_passing |-> w.ci_passing,
          diff_size_penalty |-> 0,
          author_history |-> w.author_history,
          description_quality |-> w.description_quality,
          review_approvals |-> w.review_approvals,
          den |-> 100 - w.diff_size_penalty]

\* scorer.ts:68-112  score is the fraction num / den, in 1/SignalUnit;
\* effectiveWeights is the local of that name, kept beside the result
scorePR(item, w, counts) ==
    LET signals == scoreSignals(item, counts)
        ew == effectiveWeights(w, hasDiffStats(item))
    IN [item |-> item,
        signals |-> signals,
        effectiveWeights |-> ew,
        score |-> [num |-> signals.hasTests * ew.has_tests
                           + signals.ciPassing * ew.ci_passing
                           + (IF signals.diffSize >= 0 THEN signals.diffSize ELSE 0)
                             * ew.diff_size_penalty
                           + signals.authorHistory * ew.author_history
                           + signals.descriptionQuality * ew.description_quality
                           + signals.reviewApprovals * ew.review_approvals,
                   den |-> ew.den]]

\* ------------------------------------------------ inputs of the scorer
PRItems ==
    [hasTests : {"true", "false", "unknown"},
     ciStatus : {"success", "failure", "pending"},
     additions : {Absent, 10, 5000},
     deletions : {Absent, 5},
     bodyLen : {0, 600},
     reviewCount : {0, 3},
     age : Ages,
     author : {"testuser", "newcomer"}]

\* the items that differ from item in at most one field
Variants(item) == {x \in PRItems : Cardinality({f \in DOMAIN item : x[f] # item[f]}) <= 1}

\* the configured weights: the defaults, a set that does not sum to 1, and a
\* set that sums to 1 with no weight on tests
WeightSets ==
    {DefaultWeights,
     [DefaultWeights EXCEPT !.has_tests = 30],
     [DefaultWeights EXCEPT !.has_tests = 0, !.ci_passing = 45]}

\* two items, alike in all fields but at most one, are scored under the same
\* configuration and context
InitScore ==
    /\ \E a \in PRItems : \E b \in Variants(a) : prItems = <<a, b>>
    /\ weights \in WeightSets
    /\ authorMergeCounts = ("testuser" :> 10)
    /\ scored = <<>>
    /\ pc = "input"
    /\ allEmbeddings = <<>>
    /\ items = <<>>
    /\ threshold = DefaultThreshold
    /\ adjacency = EmptyMap
    /\ annUsed = FALSE
    /\ clusters = <<>>
    /\ ranked = <<>>
    /\ NoStore /\ NoVision /\ NoPipeline

\* one call scorePR(item, config, context), on the next item
ScorePR ==
    /\ pc = "input"
    /\ Len(scored) < Len(prItems)
    /\ scored' = Append(scored, scorePR(prItems[Len(scored) + 1], weights, authorMergeCounts))
    /\ pc' = IF Len(scored') = Len(prItems) THEN "done" ELSE "input"
    /\ UNCHANGED <<prItems, weights, authorMergeCounts>>
    /\ UNCHANGED <<clusterVars, rankVars, storeVars, visionVars, pipelineVars>>

NextScore == ScorePR

SpecScore == InitScore /\ [][NextScore]_vars

\* --------------------------------------------------------------- ranking
\* (variant) comparator a.score - b.score
compareScoreAscending(a, b) == a.score.num * b.score.den - b.score.num * a.score.den

\* scorer.ts:121  the sign of the comparator (a, b) => b.score - a.score
compareScore(a, b) == b.score.num * a.score.den - a.score.num * b.score.den

\* scorer.ts:121  Array.prototype.sort with that comparator: x comes before y
\* when the comparator is negative, and equal elements keep their order
sortRanked(seq) ==
    LET rank(i) == Cardinality({j \in DOMAIN seq : compareScore(seq[j], seq[i]) < 0})
                   + Cardinality({j \in 1..i : compareScore(seq[j], seq[i]) = 0})
    IN [r \in DOMAIN seq |-> seq[CHOOSE i \in DOMAIN seq : rank(i) = r]]

\* scorer.ts:114-122  items.map(scorePR).sort(...)
rankPRs(its, w, counts) ==
    sortRanked([i \in DOMAIN its |-> scorePR(its[i], w, counts)])

\* the items handed to rankPRs: they differ in CI status, diff stats and
\* review count
RankItems ==
    {x \in PRItems : /\ x.hasTests = "unknown" /\ x.deletions = 5 /\ x.bodyLen = 600
                     /\ x.age = 0 /\ x.author = "testuser"
                     /\ x.additions \in {Absent, 5000}}

InitRank ==
    /\ \E n \in 0..MaxRankItems : prItems \in [1..n -> RankItems]
    /\ weights \in WeightSets
    /\ authorMergeCounts = ("testuser" :> 10)
    /\ scored = <<>>
    /\ ranked = <<>>
    /\ pc = "input"
    /\ allEmbeddings = <<>>
    /\ items = <<>>
    /\ threshold = DefaultThreshold
    /\ adjacency = EmptyMap
    /\ annUsed = FALSE
    /\ clusters = <<>>
    /\ NoStore /\ NoVision /\ NoPipeline

\* one call rankPRs(items, config, context)
RankPRs ==
    /\ pc = "input"
    /\ ranked' = rankPRs(prItems, weights, authorMergeCounts)
    /\ pc' = "done"
    /\ UNCHANGED <<prItems, weights, authorMergeCounts, scored>>
    /\ UNCHANGED <<clusterVars, storeVars, visionVars, pipelineVars>>

NextRank == RankPRs

SpecRank == InitRank /\ [][NextRank]_vars

\* ------------------------------------------------------ vision alignment
\* store.ts getAllItems(repo): the rows of the repo, in rowid order
getAllItems(rows, repo) == SelectSeq(rows, LAMBDA row : row.repo = repo)

\* vision.ts:80-86  the loop over the chunks from chunk k on; maxSim starts
\* at 0 and matchedSection at ""
RECURSIVE bestChunk(_, _, _, _, _)
bestChunk(prEmb, chunks, k, maxSim, matchedSection) ==
    IF k > Len(chunks) THEN [maxSim |-> maxSim, matchedSection |-> matchedSection]
    ELSE LET sim == cosineSimilarity(prEmb, chunks[k].embedding)
         IN IF sim > maxSim
            THEN bestChunk(prEmb, chunks, k + 1, sim, chunks[k].heading)
            ELSE bestChunk(prEmb, chunks, k + 1, maxSim, matchedSection)

\* (variant) the thresholds are exclusive at the lower bound of a tier
classifyExclusive(maxSim, thresholds) ==
    IF maxSim > thresholds.aligned THEN "aligned"
    ELSE IF maxSim > thresholds.drifting THEN "drifting"
    ELSE "off-vision"

\* vision.ts:88-96
classify(maxSim, thresholds) ==
    IF maxSim >= thresholds.aligned THEN "aligned"
    ELSE IF maxSim >= thresholds.drifting THEN "drifting"
    ELSE "off-vision"

\* vision.ts:72-104
scoreVisionAlignment(prEmb, chunks, thresholds) ==
    LET best == bestChunk(prEmb, chunks, 1, 0, "")
    IN [prNumber |-> 0,
        score |-> best.maxSim,
        classification |-> classify(best.maxSim, thresholds),
        matchedSection |-> best.matchedSection]

\* (variant) only the items without a stored embedding are skipped
skipsMissingOnly(vec, id) == id \notin DOMAIN vec

\* vision.ts:118-119  const emb = store.getEmbedding(item.id);
\* if (!emb || isZeroVector(emb)) continue
skipsItem(vec, id) == id \notin DOMAIN vec \/ isZeroVector(vec[id])

\* vision.ts:117-125  the loop over the items from item k on
RECURSIVE visionLoop(_, _, _, _, _, _)
visionLoop(its, vec, chunks, thresholds, k, results) ==
    IF k > Len(its) THEN results
    ELSE IF skipsItem(vec, its[k].id)
         THEN visionLoop(its, vec, chunks, thresholds, k + 1, results)
         ELSE visionLoop(its, vec, chunks, thresholds, k + 1,
                Append(results,
                       [scoreVisionAlignment(vec[its[k].id], chunks, thresholds)
                           EXCEPT !.prNumber = its[k].number]))

\* vision.ts:127  results.sort((a, b) => b.score - a.score): descending, stable
sortVision(seq) ==
    LET rank(i) == Cardinality({j \in DOMAIN seq : seq[j].score > seq[i].score})
                   + Cardinality({j \in 1..i : seq[j].score = seq[i].score})
    IN [r \in DOMAIN seq |-> seq[CHOOSE i \in DOMAIN seq : rank(i) = r]]

\* vision.ts:106-128  with the chunks loadAndEmbedVisionDoc returned
checkVisionAlignment(rows, vec, chunks, thresholds, repo) ==
    sortVision(visionLoop(getAllItems(rows, repo), vec, chunks, thresholds, 1, <<>>))

\* ----------------------------------------- inputs of the vision engine
HeadingNames == <<"Full Document", "Goals", "Non-goals", "Scope">>
HeadingAt(i) == HeadingNames[((i - 1) % Len(HeadingNames)) + 1]
\* chunk embeddings: along, near, across and against the item embeddings
ChunkVectors == {<<1, 0>>, <<3, 4>>, <<0, 1>>, <<0 - 1, 0>>}
ItemVectors == {<<0, 0>>, <<1, 0>>, <<4, 3>>}
\* config.ts ThresholdsSchema: the defaults, and a pair that similarities
\* of 0.8 and 0.6 meet exactly
VisionThresholds == {[aligned |-> 65, drifting |-> 40], [aligned |-> 80, drifting |-> 60]}
AllTables == {"prism_meta", "items", "diffs", "vec_items"}

\* a row of the items table (store.ts upsert): title, body_snippet,
\* metadata_json and created_at are not modelled
storeRow(repo, type, number, updatedAt) ==
    [id |-> <<repo, type, number>>, type |-> type, number |-> number,
     repo |-> repo, updatedAt |-> updatedAt]

\* Row 1 belongs to another repository.  Then come up to MaxVisionItems rows
\* of the repo: pull request i, except that the second may be the issue with
\* number 1.  Each of them has no embedding, a zero one or a non-zero one.
InitVision ==
    /\ prEmbedding \in ItemVectors
    /\ \E n \in 0..MaxChunks : \E e \in [1..n -> ChunkVectors] :
          visionChunks = [i \in 1..n |-> [heading |-> HeadingAt(i), embedding |-> e[i]]]
    /\ visionThresholds \in VisionThresholds
    /\ visionScore = NoScore
    /\ visionResults = <<>>
    /\ \E n \in 0..MaxVisionItems : \E twin \in BOOLEAN :
        \E has \in SUBSET (1..n) : \E e \in [has -> ItemVectors] :
          LET row(i) == IF twin /\ i = 2 THEN storeRow(Repo, "issue", 1, 0)
                        ELSE storeRow(Repo, "pr", i, 0)
          IN /\ dbItems = <<storeRow(OtherRepo, "pr", 1, 0)>> \o [i \in 1..n |-> row(i)]
             /\ dbVec = [id \in {row(i).id : i \in has} \cup {ForeignId} |->
                            IF id = ForeignId THEN <<1, 0>>
                            ELSE e[CHOOSE i \in has : row(i).id = id]]
    /\ dbTables = AllTables
    /\ dbVecWidth = 2
    /\ dbMeta = EmptyMap
    /\ storeState = "open"
    /\ dimensions = 2
    /\ embeddingModel = ""
    /\ lastCall = NoCall
    /\ calls = 0
    /\ scanLog = NoScan
    /\ pc = "input"
    /\ allEmbeddings = <<>>
    /\ items = <<>>
    /\ threshold = DefaultThreshold
    /\ adjacency = EmptyMap
    /\ annUsed = FALSE
    /\ clusters = <<>>
    /\ prItems = <<>>
    /\ weights = DefaultWeights
    /\ authorMergeCounts = EmptyMap
    /\ scored = <<>>
    /\ ranked = <<>>
    /\ NoPipeline

\* one call scoreVisionAlignment(prEmbedding, visionChunks, config)
ScoreVisionAlignment ==
    /\ visionScore = NoScore
    /\ visionScore' = scoreVisionAlignment(prEmbedding, visionChunks, visionThresholds)
    /\ UNCHANGED <<prEmbedding, visionChunks, visionThresholds, visionResults>>
    /\ UNCHANGED <<clusterVars, pc, scorerVars, rankVars, storeVars, pipelineVars>>

\* one call checkVisionAlignment(store, embedder, config, visionDocPath, repo)
CheckVisionAlignment ==
    /\ pc = "input"
    /\ visionResults' = checkVisionAlignment(dbItems, dbVec, visionChunks,
                                              visionThresholds, Repo)
    /\ pc' = "done"
    /\ UNCHANGED <<prEmbedding, visionChunks, visionThresholds, visionScore>>
    /\ UNCHANGED <<clusterVars, scorerVars, rankVars, storeVars, pipelineVars>>

NextVision == ScoreVisionAlignment \/ CheckVisionAlignment

SpecVision == InitVision /\ [][NextVision]_vars

\* ---------------------------------------------------------- vector store
\* The database file is what SQLite and sqlite-vec keep: tables and rows.
\* A vec0 table declared float[w] accepts a vector of w floats and rejects
\* any other with "Dimension mismatch for inserted vector ...".
Widths == {2, 3}
\* an embeddingModel argument; "" is the argument left out
Models == {"", "model-a", "model-b"}
StoreVectors == {<<1, 0>>, <<4, 3>>, <<1, 0, 0>>}
UpdatedAts == {1, 2}

\* store.ts getMeta(key); undefined is ""
getMeta(meta, key) == IF key \in DOMAIN meta THEN meta[key] ELSE ""

\* store.ts:248-250  the width of the row SELECT ... LIMIT 1 returns
existingDim(vec) == Len(vec[CHOOSE id \in DOMAIN vec : TRUE])

\* (variant) the stored width is not compared
dimensionCheckSkipped(tables, vec, d) == FALSE

\* store.ts:243-259  the check that makes init throw "dimension mismatch"
dimensionMismatch(tables, vec, d) ==
    /\ "vec_items" \in tables
    /\ DOMAIN vec # {}
    /\ existingDim(vec) # d

\* (variant) the recorded model is compared even when it is absent
modelChangedStrict(meta, m) ==
    /\ m # ""
    /\ getMeta(meta, "embedding_model") # m

\* store.ts:262-271  the check that makes init throw "embedding model changed"
modelChanged(meta, m) ==
    /\ m # ""
    /\ getMeta(meta, "embedding_model") # ""
    /\ getMeta(meta, "embedding_model") # m

\* store.ts:226-302  new VectorStore(path, d, m) on the database file
openStore(tables, vec, width, meta, d, m) ==
    IF dimensionMismatch(tables, vec, d)
    THEN [tables |-> tables \cup {"prism_meta"}, width |-> width,
          state |-> "closed", thrown |-> "dimension mismatch"]
    ELSE IF modelChanged(meta, m)
    THEN [tables |-> tables \cup {"prism_meta"}, width |-> width,
          state |-> "closed", thrown |-> "embedding model changed"]
    ELSE [tables |-> AllTables,
          width |-> IF "vec_items" \in tables THEN width ELSE d,
          state |-> "open", thrown |-> ""]

\* store.ts:338-358  INSERT INTO items ... ON CONFLICT(id) DO UPDATE SET ...
upsertRow(rows, item) ==
    LET id == <<item.repo, item.type, item.number>>
    IN IF \E i \in DOMAIN rows : rows[i].id = id
       THEN [i \in DOMAIN rows |-> IF rows[i].id = id
                                    THEN [rows[i] EXCEPT !.updatedAt = item.updatedAt]
                                    ELSE rows[i]]
       ELSE Append(rows, storeRow(item.repo, item.type, item.number, item.updatedAt))

\* store.ts:331-332 and 360-361  DELETE FROM vec_items WHERE id = ?, then
\* INSERT INTO vec_items (id, embedding) VALUES (?, ?)
replaceEmbedding(tables, vec, width, id, emb) ==
    IF "vec_items" \notin tables
    THEN [vec |-> vec, thrown |-> "no such table: vec_items"]
    ELSE LET deleted == [x \in DOMAIN vec \ {id} |-> vec[x]]
         IN IF Len(emb) = width
            THEN [vec |-> deleted @@ (id :> emb), thrown |-> ""]
            ELSE [vec |-> deleted, thrown |-> "Dimension mismatch for inserted vector"]

\* store.ts:335-362  upsert(item): three statements, no transaction
upsert(tables, rows, vec, width, item) ==
    LET r == replaceEmbedding(tables, vec, width,
                              <<item.repo, item.type, item.number>>, item.embedding)
    IN [rows |-> upsertRow(rows, item), vec |-> r.vec, thrown |-> r.thrown]

\* The file before the first call: it does not exist yet, or an earlier
\* release of the store (no prism_meta table) wrote it and it holds one
\* item with an embedding of width 2.
FreshFile ==
    /\ dbTables = {} /\ dbItems = <<>> /\ dbVec = EmptyMap
    /\ dbVecWidth = 0 /\ dbMeta = EmptyMap
EarlierReleaseFile ==
    /\ dbTables = {"items", "diffs", "vec_items"}
    /\ dbItems = <<storeRow(Repo, "pr", 1, 1)>>
    /\ dbVec = (IdAt(1) :> <<1, 0>>)
    /\ dbVecWidth = 2 /\ dbMeta = EmptyMap

InitStore ==
    /\ FreshFile \/ EarlierReleaseFile
    /\ storeState = "none"
    /\ dimensions = 0
    /\ embeddingModel = ""
    /\ lastCall = NoCall
    /\ calls = 0
    /\ scanLog = NoScan
    /\ NoVision
    /\ pc = "input"
    /\ allEmbeddings = <<>>
    /\ items = <<>>
    /\ threshold = DefaultThreshold
    /\ adjacency = EmptyMap
    /\ annUsed = FALSE
    /\ clusters = <<>>
    /\ prItems = <<>>
    /\ weights = DefaultWeights
    /\ authorMergeCounts = EmptyMap
    /\ scored = <<>>
    /\ ranked = <<>>
    /\ NoPipeline

NotStore == UNCHANGED <<clusterVars, pc, scorerVars, rankVars, visionVars, pipelineVars>>

\* new VectorStore(path, d, m), while no other store object is open
Open ==
    /\ storeState # "open" /\ calls < MaxCalls
    /\ \E d \in Widths : \E m \in Models :
         LET r == openStore(dbTables, dbVec, dbVecWidth, dbMeta, d, m)
         IN /\ dbTables' = r.tables
            /\ dbVecWidth' = r.width
            /\ storeState' = r.state
            /\ dimensions' = d
            /\ embeddingModel' = m
            /\ lastCall' = [op |-> "open", thrown |-> r.thrown]
    /\ calls' = calls + 1
    /\ UNCHANGED <<dbItems, dbVec, dbMeta, scanLog>>
    /\ NotStore

\* store.close()
Close ==
    /\ storeState = "open" /\ calls < MaxCalls
    /\ storeState' = "closed"
    /\ lastCall' = [op |-> "close", thrown |-> ""]
    /\ calls' = calls + 1
    /\ UNCHANGED <<dbVars, dimensions, embeddingModel, scanLog>>
    /\ NotStore

\* store.setMeta("embedding_model", value)
SetMeta ==
    /\ storeState = "open" /\ calls < MaxCalls
    /\ \E value \in Models \ {""} :
         dbMeta' = [k \in DOMAIN dbMeta \cup {"embedding_model"} |->
                       IF k = "embedding_model" THEN value ELSE dbMeta[k]]
    /\ lastCall' = [op |-> "setMeta", thrown |-> ""]
    /\ calls' = calls + 1
    /\ UNCHANGED <<dbTables, dbItems, dbVec, dbVecWidth, storeState, dimensions, embeddingModel, scanLog>>
    /\ NotStore

\* store.upsert(item)
Upsert ==
    /\ storeState = "open" /\ calls < MaxCalls
    /\ \E t \in UpdatedAts : \E e \in StoreVectors :
         LET r == upsert(dbTables, dbItems, dbVec, dbVecWidth,
                         [repo |-> Repo, type |-> "pr", number |-> 1,
                          updatedAt |-> t, embedding |-> e])
         IN /\ dbItems' = r.rows
            /\ dbVec' = r.vec
            /\ lastCall' = [op |-> "upsert", thrown |-> r.thrown]
    /\ calls' = calls + 1
    /\ UNCHANGED <<dbTables, dbVecWidth, dbMeta, storeState, dimensions, embeddingModel, scanLog>>
    /\ NotStore

\* store.upsertEmbeddingOnly(id, embedding)
UpsertEmbeddingOnly ==
    /\ storeState = "open" /\ calls < MaxCalls
    /\ \E e \in StoreVectors :
         LET r == replaceEmbedding(dbTables, dbVec, dbVecWidth, IdAt(1), e)
         IN /\ dbVec' = r.vec
            /\ lastCall' = [op |-> "upsertEmbeddingOnly", thrown |-> r.thrown]
    /\ calls' = calls + 1
    /\ UNCHANGED <<dbTables, dbItems, dbVecWidth, dbMeta, storeState, dimensions, embeddingModel, scanLog>>
    /\ NotStore

\* store.dropVecItems(): DROP TABLE IF EXISTS vec_items
DropVecItems ==
    /\ storeState = "open" /\ calls < MaxCalls
    /\ dbTables' = dbTables \ {"vec_items"}
    /\ dbVec' = EmptyMap
    /\ dbVecWidth' = 0
    /\ lastCall' = [op |-> "dropVecItems", thrown |-> ""]
    /\ calls' = calls + 1
    /\ UNCHANGED <<dbItems, dbMeta, storeState, dimensions, embeddingModel, scanLog>>
    /\ NotStore

\* store.initVecItems(): CREATE VIRTUAL TABLE IF NOT EXISTS vec_items
InitVecItems ==
    /\ storeState = "open" /\ calls < MaxCalls
    /\ dbTables' = dbTables \cup {"vec_items"}
    /\ dbVecWidth' = IF "vec_items" \in dbTables THEN dbVecWidth ELSE dimensions
    /\ lastCall' = [op |-> "initVecItems", thrown |-> ""]
    /\ calls' = calls + 1
    /\ UNCHANGED <<dbItems, dbVec, dbMeta, storeState, dimensions, embeddingModel, scanLog>>
    /\ NotStore

NextStore ==
    \/ Open \/ Close \/ SetMeta \/ Upsert \/ UpsertEmbeddingOnly
    \/ DropVecItems \/ InitVecItems

SpecStore == InitStore /\ [][NextStore]_vars

\* ------------------------------------------------------------------ scan
\* cli.ts:748  BATCH_SIZE is 10 (50 for ollama); scaled down to the model's
\* size
BATCH_SIZE == 2
\* embedder.dimensions, also the width the store is opened with (cli.ts:671)
EmbedderDimensions == 2

\* store.ts:397-401  getByNumber(repo, number): the first row with that repo
\* and number, whatever its type
getByNumber(rows, repo, number) ==
    LET hits == {i \in DOMAIN rows : rows[i].repo = repo /\ rows[i].number = number}
    IN IF hits = {} THEN NoItem
       ELSE rows[CHOOSE i \in hits : \A j \in hits : i <= j]

\* (variant) a fetched item is unchanged when a record of its number is stored
isUnchangedByNumber(rows, repo, item) ==
    \E i \in DOMAIN rows : rows[i].repo = repo /\ rows[i].number = item.number

\* (variant) no fetched item is taken as unchanged
isUnchangedNever(rows, repo, item) == FALSE

\* cli.ts:729-730  existing && existing.updatedAt === item.updatedAt
isUnchanged(rows, repo, item) ==
    LET existing == getByNumber(rows, repo, item.number)
    IN existing # NoItem /\ existing.updatedAt = item.updatedAt

\* cli.ts:726-735  newItems
newItemsOf(rows, repo, allItems) ==
    SelectSeq(allItems, LAMBDA item : ~isUnchanged(rows, repo, item))

\* What the provider returns for an item's text: the text changes when the
\* item is updated.
providerVector(item) == IF item.updatedAt = 1 THEN <<1, 0>> ELSE <<4, 3>>

\* cli.ts:775-789  the embedding of new item k.  failing is the set of new
\* items whose text makes every embedBatch call that holds it throw (an
\* error without "429"): such an item gets
\* new Array(embedder.dimensions).fill(0).
embeddingOf(newItems, failing, k) ==
    IF k \in failing THEN [c \in 1..EmbedderDimensions |-> 0]
    ELSE providerVector(newItems[k])

\* cli.ts:754-789  the embedBatch calls one batch causes: one if the batch
\* call succeeds; else three batch attempts, then one call for every text
\* that succeeds alone and three for every text that does not
embedCallsOf(batch, failing) ==
    IF batch \cap failing = {} THEN 1
    ELSE 3 + 3 * Cardinality(batch \cap failing) + Cardinality(batch \ failing)

\* cli.ts:791-816  the upserts of new items j..hi; a throwing upsert ends
\* the scan
RECURSIVE storeBatch(_, _, _, _, _, _)
storeBatch(newItems, failing, repo, j, hi, st) ==
    IF j > hi \/ st.thrown # "" THEN st
    ELSE LET r == upsert(st.tables, st.rows, st.vec, st.width,
                         [repo |-> repo, type |-> newItems[j].type,
                          number |-> newItems[j].number,
                          updatedAt |-> newItems[j].updatedAt,
                          embedding |-> embeddingOf(newItems, failing, j)])
         IN storeBatch(newItems, failing, repo, j + 1, hi,
                       [st EXCEPT !.rows = r.rows, !.vec = r.vec,
                                  !.thrown = r.thrown, !.upserts = @ + 1])

\* cli.ts:751-820  the batches from new item i on
RECURSIVE embedAndStore(_, _, _, _, _)
embedAndStore(newItems, failing, repo, i, st) ==
    IF i > Len(newItems) \/ st.thrown # "" THEN st
    ELSE LET last == i + BATCH_SIZE - 1
             hi == IF last < Len(newItems) THEN last ELSE Len(newItems)
         IN embedAndStore(newItems, failing, repo, hi + 1,
                storeBatch(newItems, failing, repo, i, hi,
                           [st EXCEPT !.embedCalls = @ + embedCallsOf(i..hi, failing)]))

\* cli.ts:675-826  runScan once the host returned allItems
runScan(tables, rows, vec, width, repo, allItems, failing) ==
    LET newItems == newItemsOf(rows, repo, allItems)
    IN embedAndStore(newItems, failing, repo, 1,
                     [tables |-> tables, rows |-> rows, vec |-> vec, width |-> width,
                      skipped |-> Len(allItems) - Len(newItems),
                      embedCalls |-> 0, upserts |-> 0, thrown |-> ""])

\* What the host returns.  Pull requests and issues share one number
\* sequence on the host: number 2 is an issue, every other number a pull
\* request.  The host's updatedAt is whatever it answers.
TypeOf(number) == IF number = 2 THEN "issue" ELSE "pr"
FetchedItems ==
    {[type |-> TypeOf(n), number |-> n, updatedAt |-> t] : n \in 1..2, t \in UpdatedAts}

\* after createPipelineContext: a store opened on a new file
InitScan ==
    /\ dbTables = AllTables
    /\ dbItems = <<>>
    /\ dbVec = EmptyMap
    /\ dbVecWidth = EmbedderDimensions
    /\ dbMeta = EmptyMap
    /\ storeState = "open"
    /\ dimensions = EmbedderDimensions
    /\ embeddingModel = ""
    /\ lastCall = NoCall
    /\ calls = 0
    /\ scanLog = NoScan
    /\ NoVision
    /\ pc = "input"
    /\ allEmbeddings = <<>>
    /\ items = <<>>
    /\ threshold = DefaultThreshold
    /\ adjacency = EmptyMap
    /\ annUsed = FALSE
    /\ clusters = <<>>
    /\ prItems = <<>>
    /\ weights = DefaultWeights
    /\ authorMergeCounts = EmptyMap
    /\ scored = <<>>
    /\ ranked = <<>>
    /\ NoPipeline

\* one runScan(ctx, opts)
RunScan ==
    /\ storeState = "open" /\ calls < MaxScans
    /\ \E n \in 0..MaxFetched : \E allItems \in [1..n -> FetchedItems] :
       \E failing \in SUBSET (1..Len(newItemsOf(dbItems, Repo, allItems))) :
         LET r == runScan(dbTables, dbItems, dbVec, dbVecWidth, Repo, allItems, failing)
         IN /\ dbItems' = r.rows
            /\ dbVec' = r.vec
            /\ scanLog' = [fetched |-> allItems, skipped |-> r.skipped,
                           embedCalls |-> r.embedCalls, upserts |-> r.upserts]
            /\ lastCall' = [op |-> "scan", thrown |-> r.thrown]
    /\ calls' = calls + 1
    /\ UNCHANGED <<dbTables, dbVecWidth, dbMeta, storeState, dimensions, embeddingModel>>
    /\ NotStore

NextScan == RunScan

SpecScan == InitScan /\ [][NextScan]_vars

\* ------------------------------------------------------ retry wrappers
\* github.ts:70 and cli.ts:755  for (let attempt = 0; attempt < 3; attempt++)
MAX_ATTEMPTS == 3

\* What one call of the wrapped function does: it returns, or it rejects
\* with an error of HTTP status 403, with one of status 5xx, or with a
\* timeout that carries no status.
HostOutcomes == {"ok", "403", "5xx", "timeout"}
\* What one embedder.embedBatch call does: it returns the vectors, or it
\* throws an error whose message holds "429", names a 5xx status, or
\* reports a timeout.
EmbedOutcomes == {"ok", "429", "5xx", "timeout"}

\* (variant) `continue` repeats the iteration without counting it
nextAttemptSame(a) == a

\* github.ts:70, cli.ts:755  attempt++ after an iteration that did not leave
\* the loop
nextAttempt(a) == a + 1

\* github.ts:70-88  one iteration of the loop of withBackoff, and the throw
\* after the loop when the iteration was the last.  cause is what the call
\* failed with: "rateLimit" is a 403 while rateLimit.remaining is 0.
withBackoffStep(a, remaining, outcome) ==
    IF outcome = "ok" THEN [do |-> "return", cause |-> "none", error |-> "none"]
    ELSE IF outcome = "403" /\ remaining = 0
    THEN IF nextAttempt(a) < MAX_ATTEMPTS
         THEN [do |-> "continue", cause |-> "rateLimit", error |-> "none"]
         ELSE [do |-> "throw", cause |-> "rateLimit", error |-> "Max retries exceeded"]
    ELSE IF outcome = "403" /\ a < 2
    THEN [do |-> "continue", cause |-> "403", error |-> "none"]
    ELSE [do |-> "throw", cause |-> outcome, error |-> outcome]

\* cli.ts:755-772  one iteration of the loop of embedWithRetry, and the
\* throw after the loop when the iteration was the last.  "rateLimit" is an
\* error whose message holds "429".
embedWithRetryStep(a, outcome) ==
    LET cause == IF outcome = "429" THEN "rateLimit" ELSE outcome
    IN IF outcome = "ok" THEN [do |-> "return", cause |-> "none", error |-> "none"]
       ELSE IF outcome = "429" \/ a < 2
       THEN IF nextAttempt(a) < MAX_ATTEMPTS
            THEN [do |-> "continue", cause |-> cause, error |-> "none"]
            ELSE [do |-> "throw", cause |-> cause, error |-> "unreachable"]
       ELSE [do |-> "throw", cause |-> cause, error |-> outcome]

\* ---------------------------------------- the embedding phase of runScan
\* cli.ts:752  batch = newItems.slice(i, i + BATCH_SIZE): its last item
batchEnd(n, i) == IF i + BATCH_SIZE - 1 < n THEN i + BATCH_SIZE - 1 ELSE n

\* (variant) new Array(0)
emptyEmbedding == <<>>

\* cli.ts:786  new Array(embedder.dimensions).fill(0)
zeroEmbedding == [c \in 1..EmbedderDimensions |-> 0]

\* cli.ts:791-816  the upserts of items j..hi of the batch that starts at
\* lo, with embeddings[j - lo] (from 0); a throwing upsert ends the scan
RECURSIVE storeEmbedded(_, _, _, _, _, _, _)
storeEmbedded(its, embs, repo, lo, j, hi, st) ==
    IF j > hi \/ st.thrown # "" THEN st
    ELSE LET r == upsert(st.tables, st.rows, st.vec, st.width,
                         [repo |-> repo, type |-> its[j].type,
                          number |-> its[j].number,
                          updatedAt |-> its[j].updatedAt,
                          embedding |-> embs[j - lo + 1]])
         IN storeEmbedded(its, embs, repo, lo, j + 1, hi,
                          [st EXCEPT !.rows = r.rows, !.vec = r.vec,
                                     !.thrown = r.thrown,
                                     !.upserted = Append(@, j)])

\* -------------------------------------------- parts idle in other runs
NoCluster ==
    /\ allEmbeddings = <<>>
    /\ items = <<>>
    /\ threshold = DefaultThreshold
    /\ adjacency = EmptyMap
    /\ annUsed = FALSE
    /\ clusters = <<>>

NoRanking ==
    /\ prItems = <<>>
    /\ weights = DefaultWeights
    /\ authorMergeCounts = EmptyMap
    /\ scored = <<>>
    /\ ranked = <<>>

\* a host call is about to be made through withBackoff; the client saw the
\* budget used up (remaining 0) or not
InitBackoff ==
    /\ pc = "withBackoff"
    /\ rateLimitRemaining \in {0, 5000}
    /\ attempt = 0 /\ fnCalls = 0 /\ lastThrow = NoThrow
    /\ NoEmbed
    /\ NoStore

\* runScan is about to embed its newItems: items 1..n of the host, with
\* any updatedAt; the store is new or holds an older record of item 1
InitEmbed ==
    /\ \E n \in 0..MaxNewItems : \E t \in [1..n -> UpdatedAts] :
         /\ scanItems = [k \in 1..n |-> [type |-> TypeOf(k), number |-> k, updatedAt |-> t[k]]]
         /\ pc = IF n = 0 THEN "done" ELSE "embedBatch"
    /\ batchStart = 1 /\ single = 0 /\ batchEmbeddings = <<>> /\ batchCalls = 0
    /\ failedBatches = {} /\ failedSingles = {} /\ upsertLog = <<>>
    /\ NoRetry
    /\ \E old \in BOOLEAN :
         /\ dbItems = IF old THEN <<storeRow(Repo, "pr", 1, 0)>> ELSE <<>>
         /\ dbVec = IF old THEN (<<Repo, "pr", 1>> :> <<3, 4>>) ELSE EmptyMap
    /\ dbTables = AllTables
    /\ dbVecWidth = EmbedderDimensions
    /\ dbMeta = EmptyMap
    /\ storeState = "open"
    /\ dimensions = EmbedderDimensions
    /\ embeddingModel = ""
    /\ lastCall = NoCall
    /\ calls = 0
    /\ scanLog = NoScan

InitRetry ==
    /\ InitBackoff \/ InitEmbed
    /\ NoCluster /\ NoRanking /\ NoVision /\ NoCommand

\* one iteration of the loop of withBackoff(fn)
WithBackoff ==
    /\ pc = "withBackoff"
    /\ \E outcome \in HostOutcomes :
         LET step == withBackoffStep(attempt, rateLimitRemaining, outcome)
         IN /\ fnCalls' = fnCalls + 1
            /\ attempt' = IF step.do = "continue" THEN nextAttempt(attempt) ELSE attempt
            /\ pc' = IF step.do = "return" THEN "returned"
                     ELSE IF step.do = "throw" THEN "thrown" ELSE pc
            /\ lastThrow' = IF step.do = "throw"
                            THEN [by |-> "withBackoff", cause |-> step.cause,
                                  error |-> step.error, calls |-> fnCalls + 1]
                            ELSE lastThrow
    /\ UNCHANGED <<rateLimitRemaining, embedVars, commandVars>>
    /\ UNCHANGED <<clusterVars, scorerVars, rankVars, storeVars, visionVars>>

\* one iteration of the loop of embedWithRetry(input) and, when the wrapper
\* returns or throws, what its caller does with the outcome (cli.ts:776-789)
EmbedWithRetry ==
    /\ pc \in {"embedBatch", "embedSingle"}
    /\ \E outcome \in EmbedOutcomes :
         LET step == embedWithRetryStep(attempt, outcome)
             hi == batchEnd(Len(scanItems), batchStart)
             ended == step.do # "continue"
         IN /\ fnCalls' = IF ended THEN 0 ELSE fnCalls + 1
            /\ attempt' = IF ended THEN 0 ELSE nextAttempt(attempt)
            /\ batchCalls' = batchCalls + 1
            /\ lastThrow' = IF step.do = "throw"
                            THEN [by |-> "embedWithRetry", cause |-> step.cause,
                                  error |-> step.error, calls |-> fnCalls + 1]
                            ELSE lastThrow
            /\ IF ~ended
               THEN UNCHANGED <<pc, single, batchEmbeddings, failedBatches, failedSingles>>
               ELSE IF pc = "embedBatch"
               THEN IF step.do = "return"
                    THEN /\ batchEmbeddings' = [k \in 1..(hi - batchStart + 1) |->
                                                  providerVector(scanItems[batchStart + k - 1])]
                         /\ pc' = "store"
                         /\ UNCHANGED <<single, failedBatches, failedSingles>>
                    ELSE /\ batchEmbeddings' = <<>>
                         /\ failedBatches' = failedBatches \cup {batchStart}
                         /\ single' = batchStart
                         /\ pc' = "embedSingle"
                         /\ UNCHANGED failedSingles
               ELSE /\ batchEmbeddings' =
                          Append(batchEmbeddings,
                                 IF step.do = "return" THEN providerVector(scanItems[single])
                                 ELSE zeroEmbedding)
                    /\ failedSingles' = IF step.do = "throw"
                                        THEN failedSingles \cup {single} ELSE failedSingles
                    /\ single' = IF single = hi THEN 0 ELSE single + 1
                    /\ pc' = IF single = hi THEN "store" ELSE "embedSingle"
                    /\ UNCHANGED failedBatches
    /\ UNCHANGED <<rateLimitRemaining, scanItems, batchStart, upsertLog, commandVars>>
    /\ UNCHANGED <<clusterVars, scorerVars, rankVars, storeVars, visionVars>>

\* the upsert loop of the current batch (cli.ts:791-819), then the next batch
StoreBatch ==
    /\ pc = "store"
    /\ LET hi == batchEnd(Len(scanItems), batchStart)
           r == storeEmbedded(scanItems, batchEmbeddings, Repo, batchStart, batchStart, hi,
                              [tables |-> dbTables, rows |-> dbItems, vec |-> dbVec,
                               width |-> dbVecWidth, upserted |-> <<>>, thrown |-> ""])
       IN /\ dbItems' = r.rows
          /\ dbVec' = r.vec
          /\ upsertLog' = upsertLog \o r.upserted
          /\ lastCall' = [op |-> "upsert", thrown |-> r.thrown]
          /\ pc' = IF r.thrown # "" THEN "scanThrown"
                   ELSE IF hi = Len(scanItems) THEN "done" ELSE "embedBatch"
          /\ batchStart' = IF r.thrown # "" THEN batchStart ELSE hi + 1
    /\ batchEmbeddings' = <<>>
    /\ batchCalls' = 0
    /\ UNCHANGED <<retryVars, scanItems, single, failedBatches, failedSingles, commandVars>>
    /\ UNCHANGED <<dbTables, dbVecWidth, dbMeta, storeState, dimensions, embeddingModel,
                   calls, scanLog>>
    /\ UNCHANGED <<clusterVars, scorerVars, rankVars, visionVars>>

NextRetry == WithBackoff \/ EmbedWithRetry \/ StoreBatch

SpecRetry == InitRetry /\ [][NextRetry]_vars

\* every pending call and timer of the event loop is eventually run
SpecRetryFair == SpecRetry /\ WF_vars(NextRetry)

\* ------------------------------------------------------- scorer context
\* scorer.ts:55  slice(0, 50): the authors looked up.  Scaled down to the
\* model's size.
TOP_AUTHORS == 2

\* (variant) every item with an author is counted
countedAuthorAny(item) == item.author # ""

\* scorer.ts:47  item.author && item.author !== "unknown"
countedAuthor(item) == item.author # "" /\ item.author # "unknown"

\* scorer.ts:45-50  the entries of authorFreq, in the Map's insertion order:
\* an author enters at its first counted item
authorFreq(its) ==
    LET firsts == SelectSeq([i \in DOMAIN its |-> i],
                            LAMBDA i : /\ countedAuthor(its[i])
                                       /\ \A j \in 1..(i - 1) : its[j].author # its[i].author)
    IN [k \in DOMAIN firsts |->
          [author |-> its[firsts[k]].author,
           freq |-> Cardinality({j \in DOMAIN its : its[j].author = its[firsts[k]].author})]]

\* scorer.ts:54  sort((a, b) => b[1] - a[1]): descending by count, stable
sortByFreq(entries) ==
    LET rank(i) == Cardinality({j \in DOMAIN entries : entries[j].freq > entries[i].freq})
                   + Cardinality({j \in 1..i : entries[j].freq = entries[i].freq})
    IN [r \in DOMAIN entries |-> entries[CHOOSE i \in DOMAIN entries : rank(i) = r]]

\* scorer.ts:53-56
topAuthors(its) ==
    LET sorted == sortByFreq(authorFreq(its))
        n == IF Len(sorted) < TOP_AUTHORS THEN Len(sorted) ELSE TOP_AUTHORS
    IN [k \in 1..n |-> sorted[k].author]

\* scorer.ts:38-66  mergeCountOf is what github.getAuthorMergeCount answers
\* for an author: the host's total_count, or 0 when the search failed
buildScorerContext(its, mergeCountOf) ==
    LET top == topAuthors(its)
    IN [lookups |-> top,
        authorMergeCounts |-> [a \in Range(top) |-> mergeCountOf[a]]]

ContextAuthors == {"", "unknown", "alice", "bob", "carol"}
MergeCounts == {0, 7}
\* the stored items handed to runRank differ in their author only
contextItem(author) ==
    [hasTests |-> "unknown", ciStatus |-> "success", additions |-> 10, deletions |-> 5,
     bodyLen |-> 600, reviewCount |-> 0, age |-> 0, author |-> author]

InitContext ==
    /\ \E n \in 0..MaxContextItems : \E a \in [1..n -> ContextAuthors] :
         prItems = [i \in 1..n |-> contextItem(a[i])]
    /\ weights = DefaultWeights
    /\ authorMergeCounts = EmptyMap
    /\ scored = <<>>
    /\ ranked = <<>>
    /\ pc = "input"
    /\ NoCluster /\ NoStore /\ NoVision /\ NoPipeline

\* cli.ts:885-913  runRank on the stored items: buildScorerContext, then
\* rankPRs with the context
RunRank ==
    /\ pc = "input"
    /\ \E mergeCountOf \in [ContextAuthors -> MergeCounts] :
         LET context == buildScorerContext(prItems, mergeCountOf)
         IN /\ authorLookups' = context.lookups
            /\ authorMergeCounts' = context.authorMergeCounts
            /\ ranked' = rankPRs(prItems, weights, context.authorMergeCounts)
    /\ pc' = "done"
    /\ UNCHANGED <<prItems, weights, scored, opts, hostCalls, hostLabels, trace>>
    /\ UNCHANGED <<clusterVars, storeVars, visionVars, retryVars, embedVars>>

NextContext == RunRank

SpecContext == InitContext /\ [][NextContext]_vars

\* ------------------------------------------------------------- labeling
\* config.ts LabelsSchema: the keys of config.labels, in Object.entries
\* order.  A label is named by its key.
LabelKeys == <<"duplicate", "aligned", "drifting", "off_vision", "top_pick">>

\* labels.ts:194-200 with github.ts ensureLabel: getLabel for every key from
\* key k on, createLabel when the host does not have the label
RECURSIVE ensureLabelsExist(_, _, _)
ensureLabelsExist(k, labels, made) ==
    IF k > Len(LabelKeys) THEN [labels |-> labels, calls |-> made]
    ELSE LET label == LabelKeys[k]
             get == [op |-> "getLabel", number |-> 0, label |-> label]
             create == [op |-> "createLabel", number |-> 0, label |-> label]
         IN IF label \in labels
            THEN ensureLabelsExist(k + 1, labels, Append(made, get))
            ELSE ensureLabelsExist(k + 1, labels \cup {label}, made \o <<get, create>>)

\* labels.ts:209-227  the host calls of applyLabelActions(github, actions, dryRun)
applyLabelActions(actions, dryRun) ==
    IF dryRun THEN <<>>
    ELSE [i \in DOMAIN actions |->
            [op |-> IF actions[i].action = "add" THEN "applyLabel" ELSE "removeLabel",
             number |-> actions[i].number, label |-> actions[i].label]]

\* cli.ts:860-875  the actions of the clusters from cluster k on
RECURSIVE dupesActions(_, _)
dupesActions(cs, k) ==
    IF k > Len(cs) THEN <<>>
    ELSE [i \in DOMAIN cs[k].items |->
            [number |-> cs[k].items[i].number, action |-> "add", label |-> "duplicate"]]
         \o <<[number |-> cs[k].bestPick.number, action |-> "add", label |-> "top_pick"]>>
         \o dupesActions(cs, k + 1)

\* cli.ts:968-973
visionActions(scores) ==
    [i \in DOMAIN scores |->
       [number |-> scores[i].prNumber, action |-> "add",
        label |-> IF scores[i].classification = "off-vision" THEN "off_vision"
                  ELSE scores[i].classification]]

\* cli.ts:857, 966  if (opts.applyLabels) await ensureLabelsExist(...)
ensuresLabels(o) == o.applyLabels

\* cli.ts:855-880, 964-977  the labeling block of runDupes and of runVision
labelBlock(o, labels, actions) ==
    IF ~(o.applyLabels \/ o.dryRun) THEN [labels |-> labels, calls |-> <<>>]
    ELSE LET ensured == IF ensuresLabels(o) THEN ensureLabelsExist(1, labels, <<>>)
                        ELSE [labels |-> labels, calls |-> <<>>]
         IN [labels |-> ensured.labels,
             calls |-> ensured.calls \o applyLabelActions(actions, o.dryRun)]

\* --------------------------------------------------------------- triage
\* store.ts:449-457  getAllEmbeddings(repo): the rows of the repo that have
\* an embedding, in rowid order
getAllEmbeddings(rows, vec, repo) ==
    LET have == SelectSeq(getAllItems(rows, repo), LAMBDA row : row.id \in DOMAIN vec)
    IN [i \in DOMAIN have |-> [id |-> have[i].id, emb |-> vec[have[i].id]]]

\* store.ts:414-441  a stored row as the PRItem the pipeline takes it for;
\* body snippet, dates and metadata are not kept in the model's rows: every
\* item has a body of 250 characters, is updated now and is by one author
storedItem(row) ==
    [repo |-> row.repo, type |-> row.type, number |-> row.number, bodyLen |-> 250,
     age |-> 0, hasTests |-> "unknown", ciStatus |-> "success", additions |-> 10,
     deletions |-> 5, reviewCount |-> 0, author |-> "alice"]
storedItems(rows, repo) ==
    LET its == getAllItems(rows, repo) IN [i \in DOMAIN its |-> storedItem(its[i])]

\* (variant) rank is started when scan has completed, dupes after it
nextStageRankFirst(stage) ==
    IF stage = "scan" THEN "rank"
    ELSE IF stage = "rank" THEN "dupes"
    ELSE IF stage = "dupes" THEN "vision" ELSE "done"

\* cli.ts:1178-1187  the stage awaited after stage
nextStage(stage) ==
    IF stage = "scan" THEN "dupes"
    ELSE IF stage = "dupes" THEN "rank"
    ELSE IF stage = "rank" THEN "vision" ELSE "done"

\* what a stage adds to the trace: its start, its store accesses, its end
stageTrace(stage, reads, writes) ==
    <<[stage |-> stage, op |-> "start"]>>
    \o [i \in 1..reads |-> [stage |-> stage, op |-> "read"]]
    \o [i \in 1..writes |-> [stage |-> stage, op |-> "write"]]
    \o <<[stage |-> stage, op |-> "end"]>>

\* the vision document: one section, near or along the item embeddings
TriageChunks ==
    {<<[heading |-> "Full Document", embedding |-> <<3, 4>>]>>,
     <<[heading |-> "Full Document", embedding |-> <<0 - 1, 0>>]>>}
\* the labels the host has before the run: none, all, or the duplicate one
HostLabelSets == {{}, Range(LabelKeys), {"duplicate"}}

\* after createPipelineContext: a store opened on a new file; any options
InitTriage ==
    /\ pc = "scan"
    /\ opts \in [applyLabels : BOOLEAN, dryRun : BOOLEAN]
    /\ hostLabels \in HostLabelSets
    /\ hostCalls = <<>> /\ trace = <<>> /\ authorLookups = <<>>
    /\ dbTables = AllTables
    /\ dbItems = <<>>
    /\ dbVec = EmptyMap
    /\ dbVecWidth = EmbedderDimensions
    /\ dbMeta = EmptyMap
    /\ storeState = "open"
    /\ dimensions = EmbedderDimensions
    /\ embeddingModel = ""
    /\ lastCall = NoCall
    /\ calls = 0
    /\ scanLog = NoScan
    /\ prEmbedding = <<0, 0>>
    /\ visionChunks \in TriageChunks
    /\ visionThresholds = [aligned |-> 65, drifting |-> 40]
    /\ visionScore = NoScore
    /\ visionResults = <<>>
    /\ NoCluster /\ NoRanking /\ NoRetry /\ NoEmbed

\* cli.ts:1189  finally { ctx.store.close() }
closedWhenOver(next) == IF next \in {"done", "failed"} THEN "closed" ELSE "open"

\* cli.ts:1178  await runScan(ctx, ...)
ScanStage ==
    /\ pc = "scan"
    /\ \E n \in 0..MaxFetched : \E allItems \in [1..n -> FetchedItems] :
       \E failing \in SUBSET (1..Len(newItemsOf(dbItems, Repo, allItems))) :
         LET r == runScan(dbTables, dbItems, dbVec, dbVecWidth, Repo, allItems, failing)
             next == IF r.thrown # "" THEN "failed" ELSE nextStage("scan")
         IN /\ dbItems' = r.rows
            /\ dbVec' = r.vec
            /\ scanLog' = [fetched |-> allItems, skipped |-> r.skipped,
                           embedCalls |-> r.embedCalls, upserts |-> r.upserts]
            /\ lastCall' = [op |-> "scan", thrown |-> r.thrown]
            /\ trace' = trace \o stageTrace("scan", Len(allItems), r.upserts)
            /\ pc' = next
            /\ storeState' = closedWhenOver(next)
    /\ UNCHANGED <<dbTables, dbVecWidth, dbMeta, dimensions, embeddingModel, calls>>
    /\ UNCHANGED <<clusterVars, scorerVars, rankVars, visionVars, retryVars, embedVars>>
    /\ UNCHANGED <<authorLookups, opts, hostCalls, hostLabels>>

\* cli.ts:828-883  runDupes(ctx, {applyLabels, dryRun})
RunDupes ==
    /\ pc = "dupes"
    /\ LET all == getAllEmbeddings(dbItems, dbVec, Repo)
           its == storedItems(dbItems, Repo)
           r == findDuplicateClusters(all, its, Repo, DefaultThreshold, [kind |-> "none"])
           block == labelBlock(opts, hostLabels, dupesActions(r.clusters, 1))
       IN /\ allEmbeddings' = all
          /\ items' = its
          /\ adjacency' = r.adjacency
          /\ annUsed' = r.useANN
          /\ clusters' = r.clusters
          /\ hostCalls' = hostCalls \o block.calls
          /\ hostLabels' = block.labels
    /\ trace' = trace \o stageTrace("dupes", 2, 0)
    /\ pc' = nextStage("dupes")
    /\ storeState' = closedWhenOver(pc')
    /\ UNCHANGED <<threshold, scorerVars, rankVars, visionVars, retryVars, embedVars>>
    /\ UNCHANGED <<dbVars, dimensions, embeddingModel, lastCall, calls, scanLog>>
    /\ UNCHANGED <<authorLookups, opts>>

\* cli.ts:885-913  runRank(ctx, {top: 20})
RankStage ==
    /\ pc = "rank"
    /\ \E mergeCountOf \in [ContextAuthors -> MergeCounts] :
         LET its == storedItems(dbItems, Repo)
             context == buildScorerContext(its, mergeCountOf)
         IN /\ prItems' = its
            /\ authorLookups' = context.lookups
            /\ authorMergeCounts' = context.authorMergeCounts
            /\ ranked' = rankPRs(its, weights, context.authorMergeCounts)
    /\ trace' = trace \o stageTrace("rank", 1, 0)
    /\ pc' = nextStage("rank")
    /\ storeState' = closedWhenOver(pc')
    /\ UNCHANGED <<weights, scored, clusterVars, visionVars, retryVars, embedVars>>
    /\ UNCHANGED <<dbVars, dimensions, embeddingModel, lastCall, calls, scanLog>>
    /\ UNCHANGED <<opts, hostCalls, hostLabels>>

\* cli.ts:915-980  runVision(ctx, {applyLabels, dryRun}); without a vision
\* document, locally or on the host, it returns before it reads the store
RunVision ==
    /\ pc = "vision"
    /\ \E docFound \in BOOLEAN :
         IF docFound
         THEN LET scores == checkVisionAlignment(dbItems, dbVec, visionChunks,
                                                  visionThresholds, Repo)
                  block == labelBlock(opts, hostLabels, visionActions(scores))
              IN /\ visionResults' = scores
                 /\ hostCalls' = hostCalls \o block.calls
                 /\ hostLabels' = block.labels
                 /\ trace' = trace \o stageTrace("vision",
                                       1 + Len(getAllItems(dbItems, Repo)), 0)
         ELSE /\ UNCHANGED <<visionResults, hostCalls, hostLabels>>
              /\ trace' = trace \o stageTrace("vision", 0, 0)
    /\ pc' = nextStage("vision")
    /\ storeState' = closedWhenOver(pc')
    /\ UNCHANGED <<prEmbedding, visionChunks, visionThresholds, visionScore>>
    /\ UNCHANGED <<clusterVars, scorerVars, rankVars, retryVars, embedVars>>
    /\ UNCHANGED <<dbVars, dimensions, embeddingModel, lastCall, calls, scanLog>>
    /\ UNCHANGED <<authorLookups, opts>>

NextTriage == ScanStage \/ RunDupes \/ RankStage \/ RunVision

SpecTriage == InitTriage /\ [][NextTriage]_vars

\* ============================================================== claims
\* ---- vocabulary of the claims, stated on the run's inputs and outputs
Identity(x) == <<x.repo, x.type, x.number>>
Members(c) == {Identity(c.items[i]) : i \in DOMAIN c.items}
StoredZero == {allEmbeddings[i].id : i \in {j \in DOMAIN allEmbeddings :
                                            allEmbeddings[j].emb = <<0, 0>>}}
StoredNonZero == {allEmbeddings[i].id : i \in DOMAIN allEmbeddings} \ StoredZero
EmbOf(id) == allEmbeddings[CHOOSE i \in DOMAIN allEmbeddings : allEmbeddings[i].id = id].emb
InItems(id) == \E i \in DOMAIN items : <<Repo, items[i].type, items[i].number>> = id
BruteForceMode == Cardinality(StoredNonZero) < ANN_MIN_IDS

\* cos(u, v) >= t / 100 for t >= 0, without the square root:
\* u.v >= 0 and (100 u.v)^2 >= t^2 |u|^2 |v|^2
CosAtLeast(u, v, t) ==
    LET dot == u[1] * v[1] + u[2] * v[2]
        nu == u[1] * u[1] + u[2] * u[2]
        nv == v[1] * v[1] + v[2] * v[2]
    IN /\ dot >= 0
       /\ (100 * dot) * (100 * dot) >= t * t * nu * nv

\* the threshold graph on the ids with a non-zero embedding
Similar(a, b) == a # b /\ CosAtLeast(EmbOf(a), EmbOf(b), threshold)
RECURSIVE ChainedFrom(_)
ChainedFrom(S) ==
    LET T == S \cup {b \in StoredNonZero : \E a \in S : Similar(a, b)}
    IN IF T = S THEN S ELSE ChainedFrom(T)

\* the graph the run built
RECURSIVE AdjacentFrom(_)
AdjacentFrom(S) ==
    LET T == S \cup {b \in DOMAIN adjacency : \E a \in S \cap DOMAIN adjacency :
                                                  b \in Range(adjacency[a])}
    IN IF T = S THEN S ELSE AdjacentFrom(T)

SameCluster(a, b) == \E i \in DOMAIN clusters : {a, b} \subseteq Members(clusters[i])

\* derived score of x >= derived score of y, where the derived score is
\* (1 / 2^age) * min(1, bodyLen / 500)
MinLen(x) == IF x.bodyLen > 500 THEN 500 ELSE x.bodyLen
DerivedAtLeast(x, y) == MinLen(x) * (2 ^ y.age) >= MinLen(y) * (2 ^ x.age)

RECURSIVE SumCos(_)
SumCos(P) ==
    IF P = {} THEN 0
    ELSE LET p == CHOOSE q \in P : TRUE
             a == CHOOSE x \in p : TRUE
             b == CHOOSE x \in p : x # a
         IN cosineSimilarity(EmbOf(a), EmbOf(b)) + SumCos(P \ {p})

\* C1: in the list one findDuplicateClusters call returns, every cluster has
\* at least 2 members and no item identity is a member of two clusters.
C1_ClustersDisjointMinTwo ==
    pc = "done" =>
        /\ \A i \in DOMAIN clusters : Len(clusters[i].items) >= 2
        /\ \A i, j \in DOMAIN clusters :
              i # j => Members(clusters[i]) \cap Members(clusters[j]) = {}

C1_Witness == pc = "done" /\ Len(clusters) >= 2

\* C2: in brute-force mode two items with non-zero embeddings and an entry in
\* the items list are in the same returned cluster iff a chain of pairs with
\* cosine similarity >= threshold links them.
C2_BruteForceComponents ==
    (pc = "done" /\ BruteForceMode) =>
        \A a, b \in {x \in StoredNonZero : InItems(x)} :
            a # b => (SameCluster(a, b) <=> b \in ChainedFrom({a}))

C2_Witness ==
    /\ pc = "done" /\ BruteForceMode
    /\ \E a, b \in StoredNonZero :
          a # b /\ SameCluster(a, b) /\ ~Similar(a, b)

\* C3: an item whose stored embedding is all zeros is a member of no returned
\* cluster and is on no edge of the similarity graph, in either mode.
C3_ZeroVectorsExcluded ==
    pc = "done" =>
        \A z \in StoredZero :
            /\ \A i \in DOMAIN clusters :
                  z \notin Members(clusters[i]) /\ z \notin Range(clusters[i].component)
            /\ z \notin DOMAIN adjacency
            /\ \A a \in DOMAIN adjacency : z \notin Range(adjacency[a])

C3_Witness ==
    /\ pc = "done" /\ annUsed /\ threshold = 0
    /\ StoredZero # {} /\ Len(clusters) >= 1
    /\ \E z \in StoredZero : InItems(z)

\* C4: for every returned cluster, bestPick is one of its items and its derived
\* score is >= the derived score of every member.
C4_BestPickIsMaximal ==
    pc = "done" =>
        \A i \in DOMAIN clusters :
            /\ \E k \in DOMAIN clusters[i].items : clusters[i].items[k] = clusters[i].bestPick
            /\ \A k \in DOMAIN clusters[i].items :
                  DerivedAtLeast(clusters[i].bestPick, clusters[i].items[k])

C4_Witness ==
    /\ pc = "done"
    /\ \E i \in DOMAIN clusters :
          /\ Identity(clusters[i].bestPick) # clusters[i].component[1]
          /\ \E k \in DOMAIN clusters[i].items :
                ~DerivedAtLeast(clusters[i].items[k], clusters[i].bestPick)

\* C5: the returned clusters are in non-increasing order of member count and
\* the cluster at position i has id i.
C5_SortedBySizeSequentialIds ==
    pc = "done" =>
        /\ \A i \in DOMAIN clusters : clusters[i].id = i
        /\ \A i, j \in DOMAIN clusters :
              i < j => Len(clusters[i].items) >= Len(clusters[j].items)

C5_Witness ==
    /\ pc = "done" /\ Len(clusters) >= 2
    /\ Len(clusters[1].items) > Len(clusters[2].items)
    /\ clusters[1].bestPick.number > clusters[2].bestPick.number

\* C6: avgSimilarity is the mean of the cosine similarity over all unordered
\* pairs of the connected component the cluster was built from, the pairs
\* below the threshold included.
C6_AvgOverAllPairs ==
    pc = "done" =>
        \A i \in DOMAIN clusters :
            LET comp == AdjacentFrom({Identity(clusters[i].bestPick)})
                P == {p \in SUBSET comp : Cardinality(p) = 2}
                avg == clusters[i].avgSimilarity
            IN /\ avg.den > 0
               /\ avg.num * Cardinality(P) = SumCos(P) * avg.den

C6_Witness ==
    /\ pc = "done"
    /\ \E i \in DOMAIN clusters :
          \E a, b \in Range(clusters[i].component) : a # b /\ ~Similar(a, b)

\* C7: in ANN mode, whatever store.search returns, every admitted edge joins
\* two distinct ids of the repo with non-zero embeddings whose exact cosine
\* similarity is >= threshold, and every returned cluster lies within one
\* cluster that the brute-force branch produces on the same data.
BruteForceClusters ==
    LET embs == nonZeroEmbeddings(allEmbeddings)
    IN sortAndNumber(components(embs, items, Repo,
                                bruteForce(embs, threshold, 1, 2, EmptyMap), 1, {}, <<>>))

C7_AnnEdgesVerified ==
    (pc = "done" /\ ~BruteForceMode) =>
        /\ \A a \in DOMAIN adjacency : \A b \in Range(adjacency[a]) :
              /\ {a, b} \subseteq StoredNonZero
              /\ a[1] = Repo /\ b[1] = Repo
              /\ Similar(a, b)
        /\ clusters # <<>> =>
              LET bf == BruteForceClusters
                  bfMembers == {Members(bf[j]) : j \in DOMAIN bf}
              IN \A i \in DOMAIN clusters :
                    \E M \in bfMembers : Members(clusters[i]) \subseteq M

C7_Witness ==
    /\ pc = "done" /\ ~BruteForceMode /\ annUsed
    /\ \E i \in DOMAIN clusters : \E j \in DOMAIN BruteForceClusters :
          /\ Members(clusters[i]) \subseteq Members(BruteForceClusters[j])
          /\ Members(clusters[i]) # Members(BruteForceClusters[j])

\* ---- scoring
WeightTotal(w) ==
    w.has_tests + w.ci_passing + w.diff_size_penalty + w.author_history
    + w.description_quality + w.review_approvals
AppliedOtherTotal(ew) ==
    ew.has_tests + ew.ci_passing + ew.author_history
    + ew.description_quality + ew.review_approvals
\* score of r is strictly greater than score of q
ScoreGreater(r, q) ==
    /\ r.score.den > 0 /\ q.score.den > 0
    /\ r.score.num * q.score.den > q.score.num * r.score.den
\* items x and y agree on every field but f
AlikeBut(x, y, f) == \A g \in DOMAIN x \ {f} : x[g] = y[g]

\* C8 as stated: for any configured weights, an item without diff stats is
\* scored with diff-size weight 0 and five other weights that sum to 1.0.
C8_AnyWeightsSumToOne ==
    \A k \in DOMAIN scored :
        ~hasDiffStats(scored[k].item) =>
            /\ scored[k].effectiveWeights.diff_size_penalty = 0
            /\ scored[k].effectiveWeights.den > 0
            /\ AppliedOtherTotal(scored[k].effectiveWeights) = scored[k].effectiveWeights.den

\* C8 (amended): when the six configured weights sum to 1.0 and the diff-size
\* weight is below 1.0, an item without diff stats is scored with diff-size
\* weight 0 and five other weights that sum to 1.0.
C8_NormalizedWeightsSumToOne ==
    \A k \in DOMAIN scored :
        (/\ ~hasDiffStats(scored[k].item)
         /\ WeightTotal(weights) = 100
         /\ weights.diff_size_penalty < 100) =>
            /\ scored[k].effectiveWeights.diff_size_penalty = 0
            /\ scored[k].effectiveWeights.den > 0
            /\ AppliedOtherTotal(scored[k].effectiveWeights) = scored[k].effectiveWeights.den

C8_Witness ==
    /\ pc = "done"
    /\ WeightTotal(weights) = 100 /\ weights.diff_size_penalty > 0
    /\ \E k \in DOMAIN scored :
          /\ scored[k].item.additions = Absent
          /\ scored[k].effectiveWeights.den = 100 - weights.diff_size_penalty

\* C9: the hasTests signal is 1.0 for hasTests true, 0.0 for false and 0.5 for
\* unknown, so with a positive has_tests weight an item with tests scores
\* strictly higher than an otherwise identical item without.
C9_HasTestsSignal ==
    /\ \A k \in DOMAIN scored :
          scored[k].signals.hasTests =
              (CASE scored[k].item.hasTests = "true" -> SignalUnit
                 [] scored[k].item.hasTests = "false" -> 0
                 [] OTHER -> SignalUnit \div 2)
    /\ \A k, l \in DOMAIN scored :
          (/\ weights.has_tests > 0
           /\ scored[k].item.hasTests = "true" /\ scored[l].item.hasTests = "false"
           /\ AlikeBut(scored[k].item, scored[l].item, "hasTests"))
          => ScoreGreater(scored[k], scored[l])

\* C10: all other fields being equal, the item with the more recent updatedAt
\* gets the strictly higher score.
C10_RecentScoresHigher ==
    \A k, l \in DOMAIN scored :
        (/\ scored[k].item.age < scored[l].item.age
         /\ AlikeBut(scored[k].item, scored[l].item, "age"))
        => ScoreGreater(scored[k], scored[l])

\* ---- ranking
\* how many elements of seq equal x
CountOf(seq, x) == Cardinality({i \in DOMAIN seq : seq[i] = x})

\* C11: rankPRs returns a permutation of the scored input items in
\* non-increasing score order: every input item appears exactly once, with
\* its score, and no item precedes one with a strictly higher score.
C11_RankedPermutationDescending ==
    pc = "done" =>
        /\ Len(ranked) = Len(prItems)
        /\ \A x \in Range(prItems) :
              CountOf([k \in DOMAIN ranked |-> ranked[k].item], x) = CountOf(prItems, x)
        /\ \A k \in DOMAIN ranked :
              ranked[k] = scorePR(ranked[k].item, weights, authorMergeCounts)
        /\ \A i, j \in DOMAIN ranked : i < j => ~ScoreGreater(ranked[j], ranked[i])

C11_Witness ==
    /\ pc = "done" /\ Len(ranked) = 3
    /\ ScoreGreater(ranked[1], ranked[2])
    /\ ~ScoreGreater(ranked[2], ranked[3]) /\ ~ScoreGreater(ranked[3], ranked[2])
    /\ ranked[2].item # ranked[3].item
    /\ ranked[1].item = prItems[3]

\* ---- vision alignment
\* the cosine similarity, in hundredths, between emb and chunk k
ChunkCos(emb, k) == cosineSimilarity(emb, visionChunks[k].embedding)
\* the maximum of it over the chunks of a non-empty list
MaxCos(emb) ==
    LET k == CHOOSE i \in DOMAIN visionChunks :
                 \A j \in DOMAIN visionChunks : ChunkCos(emb, j) <= ChunkCos(emb, i)
    IN ChunkCos(emb, k)
Tiers == {"aligned", "drifting", "off-vision"}

\* C12: scoreVisionAlignment gives the maximum similarity s exactly one of
\* the three tiers: aligned iff s >= aligned threshold, drifting iff
\* drifting threshold <= s < aligned threshold, off-vision iff
\* s < drifting threshold; a value equal to a threshold is in the higher tier.
C12_TierOfMaxSimilarity ==
    (visionScore # NoScore /\ visionChunks # <<>>) =>
        LET s == MaxCos(prEmbedding)
            c == visionScore.classification
        IN /\ c \in Tiers
           /\ c = "aligned" <=> s >= visionThresholds.aligned
           /\ c = "drifting" <=> (visionThresholds.drifting <= s /\ s < visionThresholds.aligned)
           /\ c = "off-vision" <=> s < visionThresholds.drifting

C12_Witness ==
    /\ visionScore # NoScore /\ Len(visionChunks) = 2
    /\ MaxCos(prEmbedding) = visionThresholds.aligned
    /\ \E k \in DOMAIN visionChunks : ChunkCos(prEmbedding, k) = visionThresholds.drifting
    /\ visionScore.classification = "aligned"

\* C13: for any item embedding and any non-empty list of chunks the returned
\* score is the maximum cosine similarity between the item and the chunks and
\* matchedSection is the heading of a chunk that attains it, also when every
\* similarity is zero or negative.
C13_ScoreIsMaxMatchedAttains ==
    (visionScore # NoScore /\ visionChunks # <<>>) =>
        /\ visionScore.score = MaxCos(prEmbedding)
        /\ \E k \in DOMAIN visionChunks :
              /\ visionChunks[k].heading = visionScore.matchedSection
              /\ ChunkCos(prEmbedding, k) = MaxCos(prEmbedding)

\* the rows of the repo whose stored embedding exists and is not all zeros
EligibleRows ==
    {i \in DOMAIN dbItems : /\ dbItems[i].repo = Repo
                            /\ dbItems[i].id \in DOMAIN dbVec
                            /\ \E c \in DOMAIN dbVec[dbItems[i].id] : dbVec[dbItems[i].id][c] # 0}

\* C14: checkVisionAlignment returns exactly one result for every item of
\* the repo with a stored non-zero embedding and none for an item with no
\* stored embedding or a zero-vector embedding.
C14_OneResultPerEmbeddedItem ==
    pc = "done" =>
        /\ Len(visionResults) = Cardinality(EligibleRows)
        /\ \A n \in {dbItems[i].number : i \in DOMAIN dbItems} :
              Cardinality({k \in DOMAIN visionResults : visionResults[k].prNumber = n})
              = Cardinality({i \in EligibleRows : dbItems[i].number = n})
        /\ \A k \in DOMAIN visionResults : visionResults[k].classification \in Tiers

C14_Witness ==
    /\ pc = "done" /\ Len(visionResults) = 1 /\ Len(dbItems) = 3
    /\ \E i \in DOMAIN dbItems :
          /\ dbItems[i].repo = Repo /\ dbItems[i].id \in DOMAIN dbVec
          /\ isZeroVector(dbVec[dbItems[i].id])

\* ---- vector store
\* the step is one store call of kind op
StoreCall(op) == calls' = calls + 1 /\ lastCall'.op = op
\* the embedding model the file records, "" if none
Recorded == IF "embedding_model" \in DOMAIN dbMeta THEN dbMeta["embedding_model"] ELSE ""
\* the file holds an embedding whose width is not d
HoldsOtherWidth(d) == \E id \in DOMAIN dbVec : Len(dbVec[id]) # d

\* C15: upsert is atomic: when one of its statements fails, neither the
\* item's metadata row nor its stored embedding is changed.
C15_UpsertAtomic ==
    [][(StoreCall("upsert") /\ lastCall'.thrown # "")
          => (dbItems' = dbItems /\ dbVec' = dbVec)]_vars

\* C16 as stated: opening with width d2 a file that holds an embedding of
\* another width throws a dimension-mismatch error and closes the database
\* before any table is created or any row is written.
C16_MismatchBeforeAnyTable ==
    [][(StoreCall("open") /\ HoldsOtherWidth(dimensions'))
          => /\ lastCall'.thrown = "dimension mismatch"
             /\ storeState' = "closed"
             /\ dbTables' = dbTables
             /\ dbItems' = dbItems /\ dbVec' = dbVec /\ dbMeta' = dbMeta]_vars

\* C16 (amended): ... throws a dimension-mismatch error and closes the
\* database before any row is written and before any table other than
\* prism_meta is created.
C16_MismatchBeforeAnyRow ==
    [][(StoreCall("open") /\ HoldsOtherWidth(dimensions'))
          => /\ lastCall'.thrown = "dimension mismatch"
             /\ storeState' = "closed"
             /\ dbTables' \ {"prism_meta"} = dbTables \ {"prism_meta"}
             /\ dbVecWidth' = dbVecWidth
             /\ dbItems' = dbItems /\ dbVec' = dbVec /\ dbMeta' = dbMeta]_vars

C16_Witness ==
    /\ lastCall = [op |-> "open", thrown |-> "dimension mismatch"]
    /\ storeState = "closed"
    /\ HoldsOtherWidth(dimensions)
    /\ "prism_meta" \in dbTables

\* C17: on a store opened with width d every stored embedding has width d,
\* whatever upsert and upsertEmbeddingOnly calls were made: a vector of
\* another width is never stored.
C17_StoredWidthIsConfigured ==
    storeState = "open" => \A id \in DOMAIN dbVec : Len(dbVec[id]) = dimensions

\* C18: opening with embedding model M throws "embedding model changed" when
\* the file records a different model; the open succeeds when the recorded
\* model is M, when none is recorded and when no model is passed.  (An open
\* that fails the dimension check throws that error instead.)
C18_ModelCheck ==
    [][StoreCall("open") =>
          LET M == embeddingModel'
              differs == M # "" /\ Recorded # "" /\ Recorded # M
              widthsAgree == ~HoldsOtherWidth(dimensions')
          IN /\ differs => (storeState' = "closed" /\ lastCall'.thrown # "")
             /\ (differs /\ widthsAgree) => lastCall'.thrown = "embedding model changed"
             /\ lastCall'.thrown = "embedding model changed" => differs
             /\ (~differs /\ widthsAgree) => (storeState' = "open" /\ lastCall'.thrown = "")]_vars

C18_Witness ==
    /\ lastCall = [op |-> "open", thrown |-> "embedding model changed"]
    /\ storeState = "closed"
    /\ embeddingModel # "" /\ Recorded # "" /\ Recorded # embeddingModel

\* ---- scan
ScanStep == calls' = calls + 1 /\ lastCall'.op = "scan"
\* the store holds a record of the fetched item's identity with its updatedAt
StoredUnchanged(item) ==
    \E i \in DOMAIN dbItems :
        /\ dbItems[i].id = <<Repo, item.type, item.number>>
        /\ dbItems[i].updatedAt = item.updatedAt

C20_UpdatedAtNeverDecreases ==
    [][\A i \in DOMAIN dbItems : \A j \in DOMAIN dbItems' :
          dbItems'[j].id = dbItems[i].id => dbItems'[j].updatedAt >= dbItems[i].updatedAt]_vars

\* ---- retries and the embedding phase
\* the batch that holds item k starts at item batchOf(k)
batchOf(k) == ((k - 1) \div BATCH_SIZE) * BATCH_SIZE + 1
ScanId(item) == <<Repo, item.type, item.number>>

\* C21: whatever embedBatch calls fail, the embedding phase of runScan does
\* not throw and, once it is over, has handed every new or updated item to
\* store.upsert exactly once; the stored vector of an item is all zeros, of
\* width embedder.dimensions, exactly when embedWithRetry threw both for its
\* batch and for its own text, and is the provider's vector otherwise.
C21_EveryItemStoredOnce ==
    /\ pc # "scanThrown"
    /\ pc = "done" =>
         /\ upsertLog = [k \in 1..Len(scanItems) |-> k]
         /\ \A k \in DOMAIN scanItems :
              LET id == ScanId(scanItems[k])
                  bothFailed == batchOf(k) \in failedBatches /\ k \in failedSingles
              IN /\ id \in DOMAIN dbVec
                 /\ bothFailed => Len(dbVec[id]) = EmbedderDimensions /\ isZeroVector(dbVec[id])
                 /\ ~bothFailed => dbVec[id] = providerVector(scanItems[k])

\* two batches: the first failed, one of its items failed alone and the
\* other did not; the second batch succeeded
C21_Witness ==
    /\ pc = "done" /\ Len(scanItems) = 3
    /\ failedBatches = {1} /\ failedSingles = {2}
    /\ isZeroVector(dbVec[ScanId(scanItems[2])])
    /\ dbVec[ScanId(scanItems[1])] = providerVector(scanItems[1])

\* C22: a retry wrapper propagates a rate-limit response, a 5xx response or
\* a timeout to its caller only after it has retried the call at least once.
C22_TransientRetriedBeforeThrow ==
    lastThrow.cause \in {"rateLimit", "5xx", "timeout"} => lastThrow.calls >= 2

\* every wrapper makes at most MAX_ATTEMPTS calls, is still within its
\* attempts while it runs, and one batch of n texts causes at most 3 + 3n
\* embedBatch calls
RetryBounds ==
    /\ fnCalls <= MAX_ATTEMPTS /\ lastThrow.calls <= MAX_ATTEMPTS
    /\ pc \in {"withBackoff", "embedBatch", "embedSingle"}
         => fnCalls = attempt /\ attempt < MAX_ATTEMPTS
    /\ batchCalls <= 3 + 3 * (batchEnd(Len(scanItems), batchStart) - batchStart + 1)
RetryOver == pc \in {"returned", "thrown", "done", "scanThrown"}

\* C27: withBackoff calls the wrapped function at most 3 times and
\* embedWithRetry calls embedBatch at most 3 times per invocation, every
\* invocation ends by returning or by throwing, and one scan batch of n
\* texts causes at most 3 + 3n embedBatch calls.
C27_RetriesBoundedAndEnd == []RetryBounds /\ <>[]RetryOver

\* a batch of two texts that took all of its 3 + 3 * 2 calls
C27_Witness ==
    /\ pc = "store" /\ batchCalls = 9 /\ Len(batchEmbeddings) = 2
    /\ lastThrow.by = "embedWithRetry" /\ lastThrow.calls = MAX_ATTEMPTS

\* ---- scorer context
ItemsOf(author) == Cardinality({i \in DOMAIN prItems : prItems[i].author = author})
LookedUp == Range(authorLookups)

\* C23: one run calls getAuthorMergeCount at most TOP_AUTHORS (50) times and
\* at most once per author, never for "unknown", and only for authors that
\* have at least as many items as every counted author left out; the ranking
\* scores every item whose author is not in the resulting map with a merge
\* count of 0.
C23_LookupsBounded ==
    pc = "done" =>
      /\ Len(authorLookups) <= TOP_AUTHORS
      /\ \A i, j \in DOMAIN authorLookups : i # j => authorLookups[i] # authorLookups[j]
      /\ "unknown" \notin LookedUp
      /\ \A a \in LookedUp : ItemsOf(a) >= 1
      /\ \A a \in LookedUp : \A b \in ContextAuthors \ (LookedUp \cup {"", "unknown"}) :
            ItemsOf(a) >= ItemsOf(b)
      /\ DOMAIN authorMergeCounts = LookedUp
      /\ \A i \in DOMAIN ranked :
            ranked[i].item.author \notin DOMAIN authorMergeCounts
               => ranked[i].signals.authorHistory = normalizeAuthorHistory(0)

\* three authors with items and an item of "unknown": one author is left
\* out, and a looked-up author has merged pull requests
C23_Witness ==
    /\ pc = "done" /\ Len(authorLookups) = TOP_AUTHORS
    /\ \E i \in DOMAIN prItems : prItems[i].author = "unknown"
    /\ \E b \in {"alice", "bob", "carol"} : ItemsOf(b) >= 1 /\ b \notin LookedUp
    /\ \E a \in LookedUp : authorMergeCounts[a] = 7
    /\ \E i \in DOMAIN ranked : ranked[i].signals.authorHistory # normalizeAuthorHistory(0)

\* ---- labeling and triage
MutatingOps == {"applyLabel", "removeLabel", "createLabel"}
OpsMade == {hostCalls[i].op : i \in DOMAIN hostCalls}

\* C24: with dryRun set, runDupes and runVision make no mutating call on the
\* repository host - no applyLabel, no removeLabel, no label creation -
\* whether or not applyLabels is set too; labels are applied only when
\* applyLabels is set without dryRun.
C24_DryRunMakesNoMutatingCall ==
    /\ opts.dryRun => OpsMade \cap MutatingOps = {}
    /\ "applyLabel" \in OpsMade => opts.applyLabels /\ ~opts.dryRun

StageOrder(stage) ==
    IF stage = "scan" THEN 1 ELSE IF stage = "dupes" THEN 2
    ELSE IF stage = "rank" THEN 3 ELSE 4

\* C25: a triage run executes scan, dupes, rank and vision in this order,
\* each stage starting after the previous one has ended, so that no store
\* read of dupes, rank or vision comes before the last store write of scan.
C25_StagesInOrder ==
    /\ \A i, j \in DOMAIN trace :
          i < j => StageOrder(trace[i].stage) <= StageOrder(trace[j].stage)
    /\ \A j \in DOMAIN trace :
          trace[j].op = "start" /\ trace[j].stage # "scan"
             => /\ j > 1
                /\ trace[j - 1].op = "end"
                /\ StageOrder(trace[j - 1].stage) = StageOrder(trace[j].stage) - 1
    /\ \A i, j \in DOMAIN trace :
          trace[j] = [stage |-> "scan", op |-> "write"] /\ trace[i].op = "read" /\ i < j
             => trace[i].stage = "scan"

\* a complete run whose scan wrote two items that dupes clustered and
\* vision read
C25_Witness ==
    /\ pc = "done" /\ storeState = "closed"
    /\ Cardinality({j \in DOMAIN trace : trace[j] = [stage |-> "scan", op |-> "write"]}) = 2
    /\ Len(clusters) = 1
    /\ Len(ranked) = 2
    /\ \E j \in DOMAIN trace : trace[j] = [stage |-> "vision", op |-> "read"]

\* ---- ties of the best pick, dropped members
\* where the breadth-first traversal discovered id (component is in
\* discovery order)
DiscoveredAt(c, id) == CHOOSE p \in DOMAIN c.component : c.component[p] = id

\* C26: the best pick of a cluster has the highest derived score of its
\* items, and of the items that share that score it is the one the
\* breadth-first traversal of the component discovered first.
C26_TieGoesToFirstDiscovered ==
    pc = "done" =>
      \A k \in DOMAIN clusters :
         LET c == clusters[k]
         IN \A i \in DOMAIN c.items :
               /\ c.items[i].score <= c.bestPick.score
               /\ c.items[i].score = c.bestPick.score
                    => DiscoveredAt(c, Identity(c.bestPick))
                         <= DiscoveredAt(c, Identity(c.items[i]))

\* a cluster of three whose best score is shared by two items, of which
\* the first discovered is the best pick, while a third item scores less
C26_Witness ==
    /\ pc = "done"
    /\ \E k \in DOMAIN clusters :
         LET c == clusters[k]
         IN /\ Len(c.items) = 3
            /\ c.items[2].score = c.bestPick.score
            /\ c.items[3].score < c.bestPick.score
            /\ DiscoveredAt(c, Identity(c.bestPick)) > 1

\* C28: every id of a connected component appears in the items of the
\* cluster emitted for it: the cluster has as many items as the component
\* has members, whatever the items argument.
C28_NoMemberDropped ==
    pc = "done" =>
      \A k \in DOMAIN clusters :
         /\ Len(clusters[k].items) = Len(clusters[k].component)
         /\ Range(clusters[k].component) = Members(clusters[k])

\* ---- failed embeddings and later scans
\* the store holds a record with the fetched item's number and updatedAt
MatchesStored(item) ==
    \E i \in DOMAIN dbItems :
        /\ dbItems[i].repo = Repo
        /\ dbItems[i].number = item.number
        /\ dbItems[i].updatedAt = item.updatedAt
\* the stored embedding of the row is a zero vector
ZeroStored(row) == row.id \in DOMAIN dbVec /\ isZeroVector(dbVec[row.id])

C30_TableDeclaredWithConfiguredWidth ==
    (storeState = "open" /\ "vec_items" \in dbTables) => dbVecWidth = dimensions

====
